---- MODULE Spec2Model ----
(***************************************************************************)
(* A model of pwconn (src/main.py): the connection pairing function        *)
(* conn_pairs, the graph annotator annotate_pw_info and the key handler    *)
(* of PWConnApp with the state it owns.                                    *)
(***************************************************************************)
EXTENDS Integers, Sequences, FiniteSets, TLC

VARIABLES
    pairing,            \* one call of conn_pairs: its arguments and its outcome
    annotation,         \* one run of annotate_pw_info: the map and the loop's position
    parsing,            \* one run of a parser: the text, the loop's position and locals
    media_type,         \* PWConnApp.media_type
    pw_info,            \* PWConnApp.pw_info
    alsa_info,          \* PWConnApp.alsa_info
    expanded_devices,   \* PWConnApp.expanded_devices
    expanded_ports,     \* PWConnApp.expanded_ports
    selected_ports,     \* PWConnApp.selected_ports
    list_items,         \* PWConnApp.list_items
    list_selection,     \* PWConnApp.list_selection
    calls,              \* the Gateway commands the last handler issued
    raised,             \* the exception that ended the application, or "none"
    event               \* the last handler that ran

(***************************************************************************)
(* Bounds of the model.                                                    *)
(***************************************************************************)
\* largest number of marked output (or input) ports handed to conn_pairs
MaxPorts == 44

\* largest number of records in a map handed to annotate_pw_info
MaxObjects == 6

\* largest number of lines in a text handed to a parser
MaxLines == 4

(***************************************************************************)
(* Python float arithmetic as conn_pairs uses it.  A float is an IEEE 754  *)
(* double: a 53 bit significand, kept here in four limbs                   *)
(*     h * 2^52 + a * 2^34 + b * 2^16 + c      (h: 1, a: 18, b: 18, c: 16  *)
(* bits) scaled by 2^-(52 + s).  Division and multiplication round to      *)
(* nearest, ties to even; int() truncates.                                 *)
(***************************************************************************)
Limb18 == 2^18
Limb16 == 2^16

FloatZero == [h |-> 0, a |-> 0, b |-> 0, c |-> 0, s |-> 0]

\* the shift that brings m / n into [1, 2)
RECURSIVE Normalize(_, _, _)
Normalize(m, n, s) == IF m >= n THEN s ELSE Normalize(2 * m, n, s + 1)

\* x with one unit in the last place added, the carry running up the limbs
FloatIncrement(x) ==
    IF x.c + 1 < Limb16 THEN [x EXCEPT !.c = x.c + 1]
    ELSE IF x.b + 1 < Limb18 THEN [x EXCEPT !.c = 0, !.b = x.b + 1]
    ELSE IF x.a + 1 < Limb18 THEN [x EXCEPT !.c = 0, !.b = 0, !.a = x.a + 1]
    ELSE [x EXCEPT !.c = 0, !.b = 0, !.a = 0, !.h = x.h + 1]

\* num / count on two ints, 0 <= num, 1 <= count: the nearest double
FloatDiv(num, count) ==
    IF num = 0 THEN FloatZero
    ELSE
    LET s  == Normalize(num, count, 0)
        m  == num * 2^s
        h  == m \div count
        r0 == m % count
        a  == (r0 * Limb18) \div count
        r1 == (r0 * Limb18) % count
        b  == (r1 * Limb18) \div count
        r2 == (r1 * Limb18) % count
        c  == (r2 * Limb16) \div count
        r3 == (r2 * Limb16) % count
        x  == [h |-> h, a |-> a, b |-> b, c |-> c, s |-> s]
        up == 2 * r3 > count \/ (2 * r3 = count /\ c % 2 = 1)
        y  == IF up THEN FloatIncrement(x) ELSE x
    IN  IF y.h = 2 THEN [y EXCEPT !.h = 1, !.s = s - 1] ELSE y

RECURSIVE BitLength(_)
BitLength(n) == IF n = 0 THEN 0 ELSE 1 + BitLength(n \div 2)

\* int(x * conn) for a double x and an int conn >= 0: the product is rounded
\* to 53 bits, then truncated
IntOfProduct(x, conn) ==
    LET p0 == x.c * conn
        c  == p0 % Limb16
        p1 == x.b * conn + (p0 \div Limb16)
        b  == p1 % Limb18
        p2 == x.a * conn + (p1 \div Limb18)
        a  == p2 % Limb18
        h  == x.h * conn + (p2 \div Limb18)
        \* bits of the exact product beyond the 53 a double keeps
        d    == BitLength(h) - 1
        lo   == c % (2^d)
        keep == c \div (2^d)
        up   == /\ d > 0
                /\ \/ 2 * lo > 2^d
                   \/ (2 * lo = 2^d /\ keep % 2 = 1)
        carry == /\ up
                 /\ (keep + 1) * (2^d) >= Limb16
                 /\ b + 1 = Limb18
                 /\ a + 1 = Limb18
        hr   == IF carry THEN h + 1 ELSE h
    IN  IF h = 0 THEN 0
        ELSE IF x.s >= 0 THEN hr \div (2^(x.s)) ELSE hr * 2^(0 - x.s)

Max(x, y) == IF x >= y THEN x ELSE y

\* conn_pairs with the loop running over the shorter list
ConnPairsOverShorter(num_out, num_in) ==
    LET count == IF num_out <= num_in THEN num_out ELSE num_in
    IN  IF count = 0
        THEN [raised |-> "ZeroDivisionError", connections |-> <<>>]
        ELSE
        LET div_out == FloatDiv(num_out, count)
            div_in  == FloatDiv(num_in, count)
        IN  [raised |-> "none",
             connections |->
                [i \in 1..count |->
                    <<IntOfProduct(div_out, i - 1), IntOfProduct(div_in, i - 1)>>]]

(***************************************************************************)
(* conn_pairs(num_out, num_in), src/main.py 266-274.  The result is the    *)
(* list it returns, or the exception it raises.                            *)
(***************************************************************************)
conn_pairs(num_out, num_in) ==
    LET count == Max(num_out, num_in)
    IN  IF count = 0
        THEN [raised |-> "ZeroDivisionError", connections |-> <<>>]
        ELSE
        LET div_out == FloatDiv(num_out, count)
            div_in  == FloatDiv(num_in, count)
        IN  [raised |-> "none",
             connections |->
                [i \in 1..count |->
                    <<IntOfProduct(div_out, i - 1), IntOfProduct(div_in, i - 1)>>]]

(***************************************************************************)
(* Python values.  A dict is a function on the keys it holds; None is a    *)
(* value of its own; a str is an atom whose characters (code points) are   *)
(* given by chars, so that startswith, "in", sorted and int are computed   *)
(* on the characters as Python computes them.                              *)
(***************************************************************************)
None == "<None>"

\* the bool True, equal to no str
True == "<True>"

EmptyDict == [k \in {} |-> None]

\* the code points of every string the model's graphs hold
chars ==
    ("" :> <<>>) @@
    ("0" :> <<48>>) @@
    ("1" :> <<49>>) @@
    ("2" :> <<50>>) @@
    ("4" :> <<52>>) @@
    ("5" :> <<53>>) @@
    ("6" :> <<54>>) @@
    ("9" :> <<57>>) @@
    ("10" :> <<49, 48>>) @@
    ("11" :> <<49, 49>>) @@
    ("12" :> <<49, 50>>) @@
    ("13" :> <<49, 51>>) @@
    ("14" :> <<49, 52>>) @@
    ("99" :> <<57, 57>>) @@
    ("14:out:0" :> <<49, 52, 58, 111, 117, 116, 58, 48>>) @@
    ("out:0" :> <<111, 117, 116, 58, 48>>) @@
    ("Audio" :> <<65, 117, 100, 105, 111>>) @@
    ("Audio/Device" :> <<65, 117, 100, 105, 111, 47, 68, 101, 118, 105, 99, 101>>) @@
    ("Audio/Sink" :> <<65, 117, 100, 105, 111, 47, 83, 105, 110, 107>>) @@
    ("Audio/Source" :> <<65, 117, 100, 105, 111, 47, 83, 111, 117, 114, 99, 101>>) @@
    ("Video/Device" :> <<86, 105, 100, 101, 111, 47, 68, 101, 118, 105, 99, 101>>) @@
    ("Video/Source" :> <<86, 105, 100, 101, 111, 47, 83, 111, 117, 114, 99, 101>>) @@
    ("Video/Sink" :> <<86, 105, 100, 101, 111, 47, 83, 105, 110, 107>>) @@
    ("Midi/Bridge" :> <<77, 105, 100, 105, 47, 66, 114, 105, 100, 103, 101>>) @@
    ("device_audio" :> <<100, 101, 118, 105, 99, 101, 95, 97, 117, 100, 105, 111>>) @@
    ("device_jack_midi" :> <<100, 101, 118, 105, 99, 101, 95, 106, 97, 99, 107, 95, 109, 105, 100, 105>>) @@
    ("device_video" :> <<100, 101, 118, 105, 99, 101, 95, 118, 105, 100, 101, 111>>) @@
    ("device_alsa_midi" :> <<100, 101, 118, 105, 99, 101, 95, 97, 108, 115, 97, 95, 109, 105, 100, 105>>) @@
    ("port" :> <<112, 111, 114, 116>>) @@
    ("portgroup" :> <<112, 111, 114, 116, 103, 114, 111, 117, 112>>) @@
    ("link" :> <<108, 105, 110, 107>>) @@
    ("Midi" :> <<77, 105, 100, 105>>) @@
    ("device" :> <<100, 101, 118, 105, 99, 101>>) @@
    ("in" :> <<105, 110>>) @@
    ("out" :> <<111, 117, 116>>) @@
    ("true" :> <<116, 114, 117, 101>>) @@
    ("card" :> <<99, 97, 114, 100>>) @@
    ("sink" :> <<115, 105, 110, 107>>) @@
    ("app" :> <<97, 112, 112>>) @@
    ("FL" :> <<70, 76>>) @@
    ("FR" :> <<70, 82>>) @@
    ("card:FL" :> <<99, 97, 114, 100, 58, 70, 76>>) @@
    ("thru" :> <<116, 104, 114, 117>>) @@
    ("thru-0" :> <<116, 104, 114, 117, 45, 48>>)

\* d.get(key)
Get(d, key) == IF key \in DOMAIN d THEN d[key] ELSE None

\* d.get(key, [])
GetList(d, key) == IF key \in DOMAIN d THEN d[key] ELSE <<>>

\* d[key] = val
SetItem(d, key, val) ==
    [k \in DOMAIN d \cup {key} |-> IF k = key THEN val ELSE d[k]]

\* d.setdefault(key, []).append(x)
SetDefaultAppend(d, key, x) == SetItem(d, key, Append(GetList(d, key), x))

\* a or b, on str-or-None values
Or(a, b) == IF a = None \/ a = "" THEN b ELSE a

\* s.startswith(prefix)
startswith(s, prefix) ==
    /\ Len(chars[prefix]) <= Len(chars[s])
    /\ SubSeq(chars[s], 1, Len(chars[prefix])) = chars[prefix]

\* sub in s, on two str
contains(sub, s) ==
    \E i \in 0..(Len(chars[s]) - Len(chars[sub])) :
        SubSeq(chars[s], i + 1, i + Len(chars[sub])) = chars[sub]

\* a < b on two sequences of code points: the order sorted() uses on str
RECURSIVE SeqLess(_, _)
SeqLess(a, b) ==
    IF b = <<>> THEN FALSE
    ELSE IF a = <<>> THEN TRUE
    ELSE IF Head(a) # Head(b) THEN Head(a) < Head(b)
    ELSE SeqLess(Tail(a), Tail(b))

\* int(s, 0) on a str of decimal digits without a leading zero
RECURSIVE DigitsValue(_, _)
DigitsValue(cs, acc) ==
    IF cs = <<>> THEN acc ELSE DigitsValue(Tail(cs), 10 * acc + (Head(cs) - 48))

int(s) == DigitsValue(chars[s], 0)

(***************************************************************************)
(* The multimedia graph: the dict get_pw_info builds, as the list of its   *)
(* keys in insertion order (the order items() visits them in) and the      *)
(* record each key holds.                                                  *)
(***************************************************************************)
EmptyInfo == [order |-> <<>>, obj |-> EmptyDict]

\* a dict holding the records recs, inserted in that order
InfoOf(recs) ==
    [order |-> [i \in DOMAIN recs |-> recs[i]["object.id"]],
     obj   |-> [id \in {recs[i]["object.id"] : i \in DOMAIN recs} |->
                    LET i == CHOOSE j \in DOMAIN recs : recs[j]["object.id"] = id
                    IN  recs[i]]]

\* key in info
Has(info, id) == id \in DOMAIN info.obj

\* info[id][key] = val
SetAttr(info, id, key, val) ==
    [info EXCEPT !.obj[id] = SetItem(@, key, val)]

\* info[id].setdefault(key, []).append(x)
Register(info, id, key, x) ==
    [info EXCEPT !.obj[id] = SetDefaultAppend(@, key, x)]

Done(info) == [raised |-> "none", info |-> info]

Raise(exc, info) == [raised |-> exc, info |-> info]

(***************************************************************************)
(* annotate_pw_info, src/main.py 193-228: the body of its loop for one     *)
(* record.  Each branch is an operator of its own; a failed subscript      *)
(* raises KeyError, a method call on the None that info.get returned for   *)
(* an absent key raises AttributeError, and what the branch assigned       *)
(* before the raise stays assigned.                                        *)
(***************************************************************************)
IsAudioDevice(obj) ==
    \/ ("media.type" \in DOMAIN obj /\ obj["media.type"] = "Audio")
    \/ ("media.class" \in DOMAIN obj /\ obj["media.class"] = "Audio/Device")

IsJackMidiDevice(obj) ==
    "media.class" \in DOMAIN obj /\ startswith(obj["media.class"], "Midi")

IsVideoDevice(obj) ==
    "media.class" \in DOMAIN obj /\ obj["media.class"] = "Video/Device"

IsPortgroup(obj) ==
    /\ "media.class" \in DOMAIN obj
    /\ obj["media.class"] \in {"Audio/Source", "Audio/Sink", "Video/Source", "Video/Sink"}

AnnotateVideoDevice(info, obj_id) ==
    LET typed == SetAttr(info, obj_id, "object.pwtype", "device_video")
        obj   == typed.obj[obj_id]
    IN  IF "device.description" \notin DOMAIN obj THEN Raise("KeyError", typed)
        ELSE Done(SetAttr(typed, obj_id, "device.nick", obj["device.description"]))

AnnotatePort(info, obj_id) ==
    LET typed == SetAttr(info, obj_id, "object.pwtype", "port")
        obj   == typed.obj[obj_id]
    IN  IF "node.id" \notin DOMAIN obj THEN Raise("KeyError", typed)
        ELSE IF ~Has(typed, obj["node.id"]) THEN Raise("AttributeError", typed)
        ELSE Done(Register(typed, obj["node.id"], "node.ports", obj_id))

AnnotatePortgroup(info, obj_id) ==
    LET typed == SetAttr(info, obj_id, "object.pwtype", "portgroup")
        obj   == typed.obj[obj_id]
    IN  IF "device.id" \notin DOMAIN obj THEN Raise("KeyError", typed)
        ELSE IF ~Has(typed, obj["device.id"]) THEN Raise("AttributeError", typed)
        ELSE Done(Register(typed, obj["device.id"], "node.portgroups", obj_id))

\* the link branch with both registrations made on the output port
AnnotateLinkOneSided(info, obj_id) ==
    LET typed == SetAttr(info, obj_id, "object.pwtype", "link")
        obj   == typed.obj[obj_id]
    IN  IF ~Has(typed, obj["link.output.port"]) THEN Raise("AttributeError", typed)
        ELSE
        LET out == Register(typed, obj["link.output.port"], "port.links_in", obj_id)
        IN  IF "link.input.port" \notin DOMAIN obj THEN Raise("KeyError", out)
            ELSE IF ~Has(out, obj["link.input.port"]) THEN Raise("AttributeError", out)
            ELSE Done(Register(out, obj["link.output.port"], "port.links_out", obj_id))

AnnotateLink(info, obj_id) ==
    LET typed == SetAttr(info, obj_id, "object.pwtype", "link")
        obj   == typed.obj[obj_id]
    IN  IF ~Has(typed, obj["link.output.port"]) THEN Raise("AttributeError", typed)
        ELSE
        LET out == Register(typed, obj["link.output.port"], "port.links_in", obj_id)
        IN  IF "link.input.port" \notin DOMAIN obj THEN Raise("KeyError", out)
            ELSE IF ~Has(out, obj["link.input.port"]) THEN Raise("AttributeError", out)
            ELSE Done(Register(out, obj["link.input.port"], "port.links_out", obj_id))

\* the loop body with the port rule tried before the device rules
AnnotateObjectPortFirst(info, obj_id) ==
    LET obj == info.obj[obj_id]
    IN  IF "port.id" \in DOMAIN obj THEN AnnotatePort(info, obj_id)
        ELSE IF IsAudioDevice(obj)
            THEN Done(SetAttr(info, obj_id, "object.pwtype", "device_audio"))
        ELSE IF IsJackMidiDevice(obj)
            THEN Done(SetAttr(info, obj_id, "object.pwtype", "device_jack_midi"))
        ELSE IF IsVideoDevice(obj) THEN AnnotateVideoDevice(info, obj_id)
        ELSE IF IsPortgroup(obj) THEN AnnotatePortgroup(info, obj_id)
        ELSE IF "link.output.port" \in DOMAIN obj THEN AnnotateLink(info, obj_id)
        ELSE Done(info)

AnnotateObject(info, obj_id) ==
    LET obj == info.obj[obj_id]
    IN  IF IsAudioDevice(obj)
            THEN Done(SetAttr(info, obj_id, "object.pwtype", "device_audio"))
        ELSE IF IsJackMidiDevice(obj)
            THEN Done(SetAttr(info, obj_id, "object.pwtype", "device_jack_midi"))
        ELSE IF IsVideoDevice(obj) THEN AnnotateVideoDevice(info, obj_id)
        ELSE IF "port.id" \in DOMAIN obj THEN AnnotatePort(info, obj_id)
        ELSE IF IsPortgroup(obj) THEN AnnotatePortgroup(info, obj_id)
        ELSE IF "link.output.port" \in DOMAIN obj THEN AnnotateLink(info, obj_id)
        ELSE Done(info)

\* the loop from the record at position pos + 1 on: it ends after the last
\* record, or at the first record that raises
RECURSIVE AnnotateFrom(_, _)
AnnotateFrom(info, pos) ==
    IF pos >= Len(info.order) THEN Done(info)
    ELSE LET step == AnnotateObject(info, info.order[pos + 1])
         IN  IF step.raised # "none" THEN step
             ELSE AnnotateFrom(step.info, pos + 1)

annotate_pw_info(info) == AnnotateFrom(info, 0)

(***************************************************************************)
(* sorted(items, key=...): a stable sort.  keyed is the list of            *)
(* [key |-> code points, val |-> item]; items of equal key keep their      *)
(* order.                                                                  *)
(***************************************************************************)
RECURSIVE Insert(_, _)
Insert(sorted, e) ==
    IF sorted = <<>> THEN <<e>>
    ELSE IF SeqLess(e.key, Head(sorted).key) THEN <<e>> \o sorted
    ELSE <<Head(sorted)>> \o Insert(Tail(sorted), e)

RECURSIVE SortKeyed(_)
SortKeyed(keyed) ==
    IF keyed = <<>> THEN <<>>
    ELSE Insert(SortKeyed(SubSeq(keyed, 1, Len(keyed) - 1)), keyed[Len(keyed)])

Values(keyed) == [i \in DOMAIN keyed |-> keyed[i].val]

\* sorted(ids) on a list of str
SortedStrings(ids) ==
    Values(SortKeyed([i \in DOMAIN ids |-> [key |-> chars[ids[i]], val |-> ids[i]]]))

\* [x for x in seq if Test(x)], by positions
RECURSIVE SelectIndices(_, _)
SelectIndices(n, keep) ==
    IF n = 0 THEN <<>>
    ELSE IF n \in keep THEN Append(SelectIndices(n - 1, keep), n)
    ELSE SelectIndices(n - 1, keep)

\* the records of info, in items() order, whose id is in ids
ItemsIn(info, ids) ==
    LET idx == SelectIndices(Len(info.order), {i \in DOMAIN info.order : info.order[i] \in ids})
    IN  [i \in DOMAIN idx |-> info.obj[info.order[idx[i]]]]

(***************************************************************************)
(* The row list.  A row is the pair list_items holds: the graph record the *)
(* row stands for ({} for a section label) and its ListItem, given by the  *)
(* texts of its labels.                                                    *)
(***************************************************************************)
Rows(items) == [raised |-> "none", items |-> items]

RowsRaise(exc) == [raised |-> exc, items |-> <<>>]

\* the rows of one call followed by the rows of the calls after it; an
\* exception a call raises leaves the render with no row list
Extend(rows, more) ==
    IF rows.raised # "none" THEN rows
    ELSE IF more.raised # "none" THEN more
    ELSE Rows(rows.items \o more.items)

\* one link row of render_port, src/main.py 577-606 and 608-637: the link's
\* far end is read through node_key and port_key
LinkRow(port, link_id, all_items, node_key, port_key, arrow) ==
    IF ~Has(all_items, link_id) THEN RowsRaise("AttributeError")
    ELSE
    LET link == all_items.obj[link_id]
        node_id == Get(link, node_key)
        port_id == Get(link, port_key)
    IN  IF ~Has(all_items, node_id) THEN RowsRaise("TypeError")
        ELSE
        LET other_node == all_items.obj[node_id]
            device_id  == IF "device.id" \in DOMAIN other_node
                          THEN other_node["device.id"] ELSE node_id
        IN  IF ~Has(all_items, device_id) THEN RowsRaise("AttributeError")
            ELSE IF ~Has(all_items, port_id) THEN RowsRaise("AttributeError")
            ELSE
            LET device_node == all_items.obj[device_id]
                other_node_name ==
                    Or(Get(device_node, "device.nick"),
                       Or(Get(device_node, "device.name"), Get(device_node, "node.name")))
            IN  Rows(<< <<link, <<Get(port, "object.id"), "", arrow, other_node_name,
                                 Get(all_items.obj[port_id], "port.name")>> >> >>)

RECURSIVE LinkRows(_, _, _, _, _, _)
LinkRows(port, link_ids, all_items, node_key, port_key, arrow) ==
    IF link_ids = <<>> THEN Rows(<<>>)
    ELSE
    Extend(LinkRow(port, Head(link_ids), all_items, node_key, port_key, arrow),
           LinkRows(port, Tail(link_ids), all_items, node_key, port_key, arrow))

\* render_port, src/main.py 557-639
render_port(self, port, all_items) ==
    LET obj_id == IF "object.id" \in DOMAIN port THEN port["object.id"] ELSE ""
        tag    == IF obj_id \in self.selected_ports THEN "*" ELSE ""
        first  == << <<port, <<obj_id, "",
                             IF "port.id" \in DOMAIN port THEN port["port.id"] ELSE "",
                             tag,
                             IF "port.name" \in DOMAIN port THEN port["port.name"] ELSE "">> >> >>
    IN  IF obj_id \notin self.expanded_ports THEN Rows(first)
        ELSE
        Extend(Rows(first),
            Extend(LinkRows(port, SortedStrings(GetList(port, "port.links_in")), all_items,
                            "link.input.node", "link.input.port", "-->"),
                   LinkRows(port, SortedStrings(GetList(port, "port.links_out")), all_items,
                            "link.output.node", "link.output.port", "<--")))

RECURSIVE PortRows(_, _, _)
PortRows(self, ports, all_items) ==
    IF ports = <<>> THEN Rows(<<>>)
    ELSE
    Extend(render_port(self, Head(ports), all_items),
           PortRows(self, Tail(ports), all_items))

\* sorted(ports, key=lambda p: p.get("port.id")), on ports that hold a str there
SortedByPortId(ports) ==
    IF Len(ports) < 2 THEN ports
    ELSE Values(SortKeyed([i \in DOMAIN ports |->
                        [key |-> chars[ports[i]["port.id"]], val |-> ports[i]]]))

\* one section of an expanded device, src/main.py 678-689, 691-702, 704-715;
\* sorted() compares the keys of two ports or more, and None is not comparable
Section(self, label, ports, all_items) ==
    IF ports = <<>> THEN Rows(<<>>)
    ELSE IF Len(ports) >= 2 /\ \E i \in DOMAIN ports : "port.id" \notin DOMAIN ports[i]
    THEN RowsRaise("TypeError")
    ELSE Extend(Rows(<< <<EmptyDict, <<"", label>> >> >>),
                PortRows(self, SortedByPortId(ports), all_items))

Filter(seq, keep) ==
    LET idx == SelectIndices(Len(seq), {i \in DOMAIN seq : i \in keep})
    IN  [i \in DOMAIN idx |-> seq[idx[i]]]

\* render_device_item with the monitor flag read as a truth value: any
\* non-empty flag makes a monitor port
render_device_item_truthy(self, item, all_items) ==
    LET obj_id == Get(item, "object.id")
        header == << <<item, <<obj_id,
                             Or(Get(item, "device.nick"),
                                Or(Get(item, "device.name"), Get(item, "node.name")))>> >> >>
        node_ids == {obj_id} \cup
            {oid \in DOMAIN all_items.obj :
                /\ Get(all_items.obj[oid], "device.id") = obj_id
                /\ Get(all_items.obj[oid], "media.class") \notin {None, ""}}
    IN  IF obj_id \notin self.expanded_devices THEN Rows(header)
        ELSE
        LET ports == ItemsIn(all_items,
                        {oid \in DOMAIN all_items.obj :
                            Get(all_items.obj[oid], "node.id") \in node_ids})
        IN  IF \E i \in DOMAIN ports : "port.direction" \notin DOMAIN ports[i]
            THEN RowsRaise("TypeError")
            ELSE
            LET in_ports  == Filter(ports, {i \in DOMAIN ports :
                                contains("in", ports[i]["port.direction"])})
                out_ports == Filter(ports, {i \in DOMAIN ports :
                                /\ contains("out", ports[i]["port.direction"])
                                /\ Get(ports[i], "port.monitor") \in {None, ""}})
                mon_ports == Filter(ports, {i \in DOMAIN ports :
                                /\ contains("out", ports[i]["port.direction"])
                                /\ Get(ports[i], "port.monitor") \notin {None, ""}})
            IN  Extend(Rows(header),
                    Extend(Section(self, "input", in_ports, all_items),
                        Extend(Section(self, "output", out_ports, all_items),
                               Section(self, "monitor", mon_ports, all_items))))

\* render_device_item, src/main.py 641-717
render_device_item(self, item, all_items) ==
    LET obj_id == Get(item, "object.id")
        header == << <<item, <<obj_id,
                             Or(Get(item, "device.nick"),
                                Or(Get(item, "device.name"), Get(item, "node.name")))>> >> >>
        node_ids == {obj_id} \cup
            {oid \in DOMAIN all_items.obj :
                /\ Get(all_items.obj[oid], "device.id") = obj_id
                /\ Get(all_items.obj[oid], "media.class") \notin {None, ""}}
    IN  IF obj_id \notin self.expanded_devices THEN Rows(header)
        ELSE
        LET ports == ItemsIn(all_items,
                        {oid \in DOMAIN all_items.obj :
                            Get(all_items.obj[oid], "node.id") \in node_ids})
        IN  IF \E i \in DOMAIN ports : "port.direction" \notin DOMAIN ports[i]
            THEN RowsRaise("TypeError")
            ELSE
            LET in_ports  == Filter(ports, {i \in DOMAIN ports :
                                contains("in", ports[i]["port.direction"])})
                out_ports == Filter(ports, {i \in DOMAIN ports :
                                /\ contains("out", ports[i]["port.direction"])
                                /\ ~(Get(ports[i], "port.monitor") = "true")})
                mon_ports == Filter(ports, {i \in DOMAIN ports :
                                /\ contains("out", ports[i]["port.direction"])
                                /\ Get(ports[i], "port.monitor") = "true"})
            IN  Extend(Rows(header),
                    Extend(Section(self, "input", in_ports, all_items),
                        Extend(Section(self, "output", out_ports, all_items),
                               Section(self, "monitor", mon_ports, all_items))))

RECURSIVE DeviceRows(_, _, _)
DeviceRows(self, devices, all_items) ==
    IF devices = <<>> THEN Rows(<<>>)
    ELSE
    Extend(render_device_item(self, Head(devices), all_items),
           DeviceRows(self, Tail(devices), all_items))

\* render_device_list, src/main.py 544-555: the devices in ascending int(id)
render_device_list(self, devices, all_items) ==
    DeviceRows(self,
               Values(SortKeyed([i \in DOMAIN devices |->
                    [key |-> <<int(devices[i]["object.id"])>>, val |-> devices[i]]])),
               all_items)

\* render_audio, render_jack_midi, render_video, render_alsa_midi,
\* src/main.py 500-542: the devices of one role that own a portgroup or a port
DevicesOf(info, pwtype) ==
    ItemsIn(info, {oid \in DOMAIN info.obj :
        /\ Get(info.obj[oid], "object.pwtype") = pwtype
        /\ \/ Len(GetList(info.obj[oid], "node.portgroups")) > 0
           \/ Len(GetList(info.obj[oid], "node.ports")) > 0})

(***************************************************************************)
(* What the Gateway's listings parse to.  The records are those of a sound *)
(* card (device 4, its sink node 5 with a playback port 6), an application *)
(* (node 14 with an output port 9) and a link 11 from port 9 to port 6;    *)
(* the sequencer has one client, 14, with one port.                        *)
(***************************************************************************)
Device4 ==
    ("object.id" :> "4") @@ ("object.type" :> "PipeWire:Interface:Device") @@
    ("device.description" :> "card") @@ ("media.class" :> "Audio/Device")

Node5 ==
    ("object.id" :> "5") @@ ("object.type" :> "PipeWire:Interface:Node") @@
    ("device.id" :> "4") @@ ("media.class" :> "Audio/Sink") @@ ("node.name" :> "sink")

Port6 ==
    ("object.id" :> "6") @@ ("object.type" :> "PipeWire:Interface:Port") @@
    ("node.id" :> "5") @@ ("port.id" :> "0") @@ ("port.direction" :> "in") @@
    ("port.name" :> "FL") @@ ("port.alias" :> "card:FL")

Port9 ==
    ("object.id" :> "9") @@ ("object.type" :> "PipeWire:Interface:Port") @@
    ("node.id" :> "14") @@ ("port.id" :> "0") @@ ("port.direction" :> "out") @@
    ("port.name" :> "FR")

Link11 ==
    ("object.id" :> "11") @@ ("object.type" :> "PipeWire:Interface:Link") @@
    ("link.output.port" :> "9") @@ ("link.input.port" :> "6") @@
    ("link.output.node" :> "14") @@ ("link.input.node" :> "5")

Node14 ==
    ("object.id" :> "14") @@ ("object.type" :> "PipeWire:Interface:Node") @@
    ("media.type" :> "Audio") @@ ("node.name" :> "app")

\* the maps the loop of get_pw_info builds, src/main.py 243-260, from three
\* listings: an empty one, the objects above without the link, and with it
PwUnlinked == InfoOf(<<Device4, Node5, Port6, Port9, Node14>>)

PwLinked == InfoOf(<<Device4, Node5, Port6, Port9, Link11, Node14>>)

PwListings == {EmptyInfo, PwUnlinked, PwLinked}

\* get_pw_info, src/main.py 231-263: the map, annotated
get_pw_info(listing) == annotate_pw_info(listing)

PwOutcomes == {get_pw_info(listing) : listing \in PwListings}

\* what get_alsa_info, src/main.py 68-190, returns for one client with one
\* port that only the "aconnect -i" listing holds: the port, then the client
AlsaPort ==
    ("object.pwtype" :> "port") @@ ("object.id" :> "14:out:0") @@
    ("port.id" :> "out:0") @@ ("node.id" :> "14") @@ ("port.direction" :> "out") @@
    ("port.name" :> "thru-0")

AlsaClient ==
    ("object.id" :> "14") @@ ("object.client_id" :> "14") @@
    ("object.pwtype" :> "device_alsa_midi") @@ ("device.name" :> "thru") @@
    ("node.ports" :> <<"14:out:0">>)

AlsaOutcomes == {EmptyInfo, InfoOf(<<AlsaPort, AlsaClient>>)}

(***************************************************************************)
(* PWConnApp.  self is the record of the fields __init__ sets, with calls, *)
(* the Gateway commands the running handler has issued.  A handler returns *)
(* the fields as it leaves them and the exception it raised, if any.       *)
(***************************************************************************)
Ok(self) == [raised |-> "none", self |-> self]

Fail(exc, self) == [raised |-> exc, self |-> self]

Truthy(info) == Len(info.order) > 0

\* keys_footer_content, src/main.py 454-492: it reads the highlighted row
keys_footer_content(self) ==
    IF self.list_selection \in 0..(Len(self.list_items) - 1)
    THEN Ok(self) ELSE Fail("IndexError", self)

\* the end of compose, src/main.py 317-326: the rows become list_items and
\* the ListView is built, then the footer
Composed(self, rows) ==
    IF rows.raised # "none"
    THEN Fail(rows.raised, self) @@ [list_view |-> FALSE]
    ELSE keys_footer_content([self EXCEPT !.list_items = rows.items])
            @@ [list_view |-> TRUE]

\* compose, src/main.py 304-326: list_view tells whether a ListView was built
compose(self) ==
    LET branch ==
            IF self.media_type = "audio" /\ Truthy(self.pw_info) THEN "device_audio"
            ELSE IF self.media_type = "jack_midi" /\ Truthy(self.pw_info) THEN "device_jack_midi"
            ELSE IF self.media_type = "alsa_midi" /\ Truthy(self.alsa_info) THEN "device_alsa_midi"
            ELSE IF self.media_type = "video" /\ Truthy(self.alsa_info) THEN "device_video"
            ELSE "none"
        all_items == IF branch = "device_alsa_midi" THEN self.alsa_info ELSE self.pw_info
    IN  IF branch = "none"
        THEN keys_footer_content(self) @@ [list_view |-> FALSE]
        ELSE
        Composed(self, render_device_list(self, DevicesOf(all_items, branch), all_items))

\* query_one(ListView) after the recompose: NoMatches without a ListView
Focused(composed) ==
    IF composed.raised # "none" THEN Fail(composed.raised, composed.self)
    ELSE IF ~composed.list_view THEN Fail("NoMatches", composed.self)
    ELSE Ok(composed.self)

\* redraw, src/main.py 748-750, and the end of on_key, 390-392
redraw(self) == Focused(compose(self))

Issue(self, command) == [self EXCEPT !.calls = Append(@, command)]

\* the two assignments that rebuild the graphs, src/main.py 411-412, 439-440
\* and 744-745; pw and alsa are what the two functions come back with
Rebuild(self, pw, alsa) ==
    LET asked == Issue(self, <<"pw-cli", "ls">>)
    IN  IF pw.raised # "none" THEN Fail(pw.raised, asked)
        ELSE Ok([Issue(Issue(Issue(asked, <<"aconnect", "-o">>), <<"aconnect", "-i">>),
                       <<"aconnect", "-l">>)
                    EXCEPT !.pw_info = pw.info, !.alsa_info = alsa])

(***************************************************************************)
(* The branches of on_key, src/main.py 332-392.  sel is the record of the  *)
(* highlighted row; a branch returns the fields, whether it asks for a     *)
(* re-render, and the exception it raised, if any.                         *)
(***************************************************************************)
Handled(self, need_refresh) ==
    [raised |-> "none", self |-> self, need_refresh |-> need_refresh]

Raised(exc, self) == [raised |-> exc, self |-> self, need_refresh |-> FALSE]

\* "space" with the mark never removed
ToggleMarkAddOnly(self, sel) ==
    IF Get(sel, "object.pwtype") = "port"
    THEN Handled([self EXCEPT !.selected_ports = @ \cup {Get(sel, "object.id")}], TRUE)
    ELSE Handled(self, FALSE)

\* "space", lines 336-343
ToggleMark(self, sel) ==
    IF Get(sel, "object.pwtype") = "port"
    THEN LET key == Get(sel, "object.id")
         IN  IF key \in self.selected_ports
             THEN Handled([self EXCEPT !.selected_ports = @ \ {key}], TRUE)
             ELSE Handled([self EXCEPT !.selected_ports = @ \cup {key}], TRUE)
    ELSE Handled(self, FALSE)

\* "left_square_bracket", lines 344-350
ExpandOne(self, sel) ==
    IF "object.pwtype" \notin DOMAIN sel THEN Raised("AttributeError", self)
    ELSE IF startswith(sel["object.pwtype"], "device")
    THEN Handled([self EXCEPT !.expanded_devices = @ \cup {Get(sel, "object.id")}], TRUE)
    ELSE IF startswith(sel["object.pwtype"], "port")
    THEN Handled([self EXCEPT !.expanded_ports = @ \cup {Get(sel, "object.id")}], TRUE)
    ELSE Handled(self, FALSE)

\* "right_square_bracket", lines 351-359
CollapseOne(self, sel) ==
    IF "object.pwtype" \notin DOMAIN sel THEN Raised("AttributeError", self)
    ELSE IF startswith(sel["object.pwtype"], "device")
    THEN Handled([self EXCEPT !.expanded_devices = @ \ {Get(sel, "object.id")}], TRUE)
    ELSE IF startswith(sel["object.pwtype"], "port")
    THEN Handled([self EXCEPT !.expanded_ports = @ \ {Get(sel, "object.id")}], TRUE)
    ELSE Handled(self, FALSE)

PwTypeOf(obj) == IF "object.pwtype" \in DOMAIN obj THEN obj["object.pwtype"] ELSE ""

DeviceIds(info) ==
    {id \in DOMAIN info.obj : startswith(PwTypeOf(info.obj[id]), "device")}

PortIds(info) ==
    {id \in DOMAIN info.obj :
        /\ ~startswith(PwTypeOf(info.obj[id]), "device")
        /\ PwTypeOf(info.obj[id]) = "port"}

\* "left_curly_bracket" looking at the graph on display only
ExpandAllActiveOnly(self) ==
    LET active == IF self.media_type = "alsa_midi" THEN self.alsa_info ELSE self.pw_info
    IN  Handled([self EXCEPT
                    !.expanded_devices = @ \cup DeviceIds(active),
                    !.expanded_ports = @ \cup PortIds(active)], TRUE)

\* "left_curly_bracket", lines 360-371
ExpandAll(self) ==
    Handled([self EXCEPT
                !.expanded_devices =
                    @ \cup DeviceIds(self.pw_info) \cup DeviceIds(self.alsa_info),
                !.expanded_ports =
                    @ \cup PortIds(self.pw_info) \cup PortIds(self.alsa_info)], TRUE)

\* "right_curly_bracket" leaving the highlight where it is
CollapseAllKeepHighlight(self) ==
    Handled([self EXCEPT !.expanded_devices = {}, !.expanded_ports = {}], TRUE)

\* "right_curly_bracket", lines 372-376
CollapseAll(self) ==
    Handled([self EXCEPT !.expanded_devices = {}, !.expanded_ports = {},
                         !.list_selection = 0], TRUE)

\* update_keys_footer, lines 494-495
update_keys_footer(self) ==
    LET content == keys_footer_content(self)
    IN  IF content.raised # "none" THEN Raised(content.raised, self)
        ELSE Handled(self, FALSE)

\* "up", lines 377-379
MoveUp(self) ==
    update_keys_footer([self EXCEPT !.list_selection = Max(0, @ - 1)])

Min(x, y) == IF x <= y THEN x ELSE y

\* "down", lines 380-382
MoveDown(self) ==
    update_keys_footer(
        [self EXCEPT !.list_selection = Min(Len(self.list_items) - 1, @ + 1)])

\* self.selected_ports = set(), line 442
Cleared(rebuilt) ==
    IF rebuilt.raised # "none" THEN rebuilt
    ELSE Ok([rebuilt.self EXCEPT !.selected_ports = {}])

(***************************************************************************)
(* connect_marked, src/main.py 414-442.  visit is the order in which the   *)
(* for loop meets the ports of the set selected_ports.                     *)
(***************************************************************************)
\* p.get("port.alias") or p.get("port.name")
DisplayKey(p) == Or(Get(p, "port.alias"), Get(p, "port.name"))

\* list.sort(key=DisplayKey), on ports that hold a str there
SortedByDisplayKey(ports) ==
    IF Len(ports) < 2 THEN ports
    ELSE Values(SortKeyed([i \in DOMAIN ports |->
                    [key |-> chars[DisplayKey(ports[i])], val |-> ports[i]]]))

\* the loop over the pairs, lines 431-437
RECURSIVE IssuePairs(_, _, _, _)
IssuePairs(self, pairs, out_ports, in_ports) ==
    IF pairs = <<>> THEN Ok(self)
    ELSE
    LET outport_ind == Head(pairs)[1]
        inport_ind  == Head(pairs)[2]
    IN  IF outport_ind >= Len(out_ports) \/ inport_ind >= Len(in_ports)
        THEN Fail("IndexError", self)
        ELSE IssuePairs(
                Issue(self, <<"pw-link", Get(out_ports[outport_ind + 1], "object.id"),
                              Get(in_ports[inport_ind + 1], "object.id")>>),
                Tail(pairs), out_ports, in_ports)

\* lines 439-442 after the loop: the graphs are rebuilt, the marks cleared
Rebuilt(issued, pw, alsa) ==
    IF issued.raised # "none" THEN issued
    ELSE Cleared(Rebuild(issued.self, pw, alsa))

\* lines 429-442: the pairs, the loop over them and what follows it
Connected(self, pairs, out_ports, in_ports, pw, alsa) ==
    IF pairs.raised # "none" THEN Fail(pairs.raised, self)
    ELSE Rebuilt(IssuePairs(self, pairs.connections, out_ports, in_ports), pw, alsa)

connect_marked(self, visit, pw, alsa) ==
    IF \E i \in DOMAIN visit : ~Has(self.pw_info, visit[i])
    THEN Fail("AttributeError", self)
    ELSE
    LET ports == [i \in DOMAIN visit |-> self.pw_info.obj[visit[i]]]
        in_ports  == Filter(ports, {i \in DOMAIN ports :
                                        Get(ports[i], "port.direction") = "in"})
        out_ports == Filter(ports, {i \in DOMAIN ports :
                                        Get(ports[i], "port.direction") = "out"})
        unkeyed(list) == Len(list) >= 2 /\ \E i \in DOMAIN list : DisplayKey(list[i]) = None
    IN  IF unkeyed(in_ports) \/ unkeyed(out_ports) THEN Fail("TypeError", self)
        ELSE
        Connected(self, conn_pairs(Len(out_ports), Len(in_ports)),
                  SortedByDisplayKey(out_ports), SortedByDisplayKey(in_ports), pw, alsa)

\* disconnect_selected without its test of the row: the call is issued for
\* whatever row is highlighted
disconnect_selected_any_row(self, pw, alsa) ==
    IF self.list_selection \notin 0..(Len(self.list_items) - 1)
    THEN Fail("IndexError", self)
    ELSE Rebuild(Issue(self, <<"pw-link", "-d",
                               Get(self.list_items[self.list_selection + 1][1], "object.id")>>),
                 pw, alsa)

\* disconnect_selected, src/main.py 401-412
disconnect_selected(self, pw, alsa) ==
    IF self.list_selection \notin 0..(Len(self.list_items) - 1)
    THEN Fail("IndexError", self)
    ELSE
    LET link == self.list_items[self.list_selection + 1][1]
    IN  IF ~(Get(link, "object.pwtype") = "link") THEN Ok(self)
        ELSE Rebuild(Issue(self, <<"pw-link", "-d", Get(link, "object.id")>>), pw, alsa)

Keys == {"space", "left_square_bracket", "right_square_bracket", "left_curly_bracket",
         "right_curly_bracket", "up", "down", "c", "d"}

\* the "c" and "d" branches, lines 383-388: the call, then need_refresh
Called(r) == [raised |-> r.raised, self |-> r.self, need_refresh |-> TRUE]

\* the end of on_key, lines 390-392
Refreshed(branch) ==
    IF branch.raised # "none" THEN Fail(branch.raised, branch.self)
    ELSE IF branch.need_refresh THEN redraw(branch.self)
    ELSE Ok(branch.self)

\* on_key, src/main.py 332-392
OnKey(self, key, visit, pw, alsa) ==
    IF self.list_selection \notin 0..(Len(self.list_items) - 1)
    THEN Fail("IndexError", self)
    ELSE
    LET sel == self.list_items[self.list_selection + 1][1]
    IN  Refreshed(
            CASE key = "space" -> ToggleMark(self, sel)
              [] key = "left_square_bracket" -> ExpandOne(self, sel)
              [] key = "right_square_bracket" -> CollapseOne(self, sel)
              [] key = "left_curly_bracket" -> ExpandAll(self)
              [] key = "right_curly_bracket" -> CollapseAll(self)
              [] key = "up" -> MoveUp(self)
              [] key = "down" -> MoveDown(self)
              [] key = "c" -> Called(connect_marked(self, visit, pw, alsa))
              [] key = "d" -> Called(disconnect_selected(self, pw, alsa))
              [] OTHER -> Handled(self, FALSE))

\* on_list_view_highlighted, src/main.py 394-399: row is the index of the
\* row whose ListItem the ListView reports
OnListViewHighlighted(self, row) ==
    IF row \in 0..(Len(self.list_items) - 1)
    THEN update_keys_footer([self EXCEPT !.list_selection = row])
    ELSE Ok(self)

MediaTypes == {"audio", "jack_midi", "alsa_midi", "video"}

\* action_filter_audio, action_filter_jack_midi, action_filter_midi and
\* action_filter_video, src/main.py 719-741
ActionFilter(self, type) ==
    redraw([self EXCEPT !.media_type = type, !.list_selection = 0,
                        !.selected_ports = {}])

\* self.redraw(), line 746, once the graphs are rebuilt
Redrawn(rebuilt) ==
    IF rebuilt.raised # "none" THEN rebuilt ELSE redraw(rebuilt.self)

\* action_refresh, src/main.py 743-746
ActionRefresh(self, pw, alsa) == Redrawn(Rebuild(self, pw, alsa))

(***************************************************************************)
(* The application as a state machine: the state after __init__, then one  *)
(* step per handler the event loop runs.  An exception that leaves a       *)
(* handler ends the application; the fields keep what they held.           *)
(***************************************************************************)
RECURSIVE Orderings(_)
Orderings(S) ==
    IF S = {} THEN {<<>>}
    ELSE UNION {{<<x>> \o rest : rest \in Orderings(S \ {x})} : x \in S}

Self ==
    [media_type |-> media_type, pw_info |-> pw_info, alsa_info |-> alsa_info,
     expanded_devices |-> expanded_devices, expanded_ports |-> expanded_ports,
     selected_ports |-> selected_ports, list_items |-> list_items,
     list_selection |-> list_selection, calls |-> <<>>]

Commit(result, handler) ==
    /\ media_type' = result.self.media_type
    /\ pw_info' = result.self.pw_info
    /\ alsa_info' = result.self.alsa_info
    /\ expanded_devices' = result.self.expanded_devices
    /\ expanded_ports' = result.self.expanded_ports
    /\ selected_ports' = result.self.selected_ports
    /\ list_items' = result.self.list_items
    /\ list_selection' = result.self.list_selection
    /\ calls' = result.self.calls
    /\ raised' = result.raised
    /\ event' = handler

PairIdle == pairing = [num_out |-> 0, num_in |-> 0, pc |-> "call",
                       raised |-> "none", connections |-> <<>>]

AnnotationIdle == annotation = [info |-> EmptyInfo, pos |-> 0, raised |-> "none"]

ParsingIdle == parsing = [function |-> "none"]

AppIdle ==
    /\ media_type = "audio"
    /\ pw_info = EmptyInfo
    /\ alsa_info = EmptyInfo
    /\ expanded_devices = {}
    /\ expanded_ports = {}
    /\ selected_ports = {}
    /\ list_items = <<>>
    /\ list_selection = 0
    /\ calls = <<>>
    /\ raised = "none"
    /\ event = "none"

appvars == <<media_type, pw_info, alsa_info, expanded_devices, expanded_ports,
             selected_ports, list_items, list_selection, calls, raised, event>>

vars == <<pairing, annotation, parsing, appvars>>

\* __init__, src/main.py 290-302
Init ==
    /\ PairIdle
    /\ AnnotationIdle
    /\ ParsingIdle
    /\ media_type = "audio"
    /\ pw_info \in {pw.info : pw \in {o \in PwOutcomes : o.raised = "none"}}
    /\ alsa_info \in AlsaOutcomes
    /\ expanded_devices = {}
    /\ expanded_ports = {}
    /\ selected_ports = {}
    /\ list_items = <<>>
    /\ list_selection = 0
    /\ calls = << <<"pw-cli", "ls">>, <<"aconnect", "-o">>, <<"aconnect", "-i">>,
                  <<"aconnect", "-l">> >>
    /\ raised = "none"
    /\ event = "__init__"

Running == event # "__init__" /\ raised = "none"

\* the first compose, when the application is mounted
Mount ==
    /\ event = "__init__"
    /\ raised = "none"
    /\ Commit(compose(Self), "compose")
    /\ UNCHANGED <<pairing, annotation, parsing>>

KeyPress ==
    /\ Running
    /\ \E key \in Keys :
        \E visit \in (IF key = "c" THEN Orderings(selected_ports) ELSE {<<>>}) :
        \E pw \in (IF key \in {"c", "d"} THEN PwOutcomes ELSE {Done(pw_info)}) :
        \E alsa \in (IF key \in {"c", "d"} THEN AlsaOutcomes ELSE {alsa_info}) :
            Commit(OnKey(Self, key, visit, pw, alsa), key)
    /\ UNCHANGED <<pairing, annotation, parsing>>

Highlighted ==
    /\ Running
    /\ \E row \in 0..(Len(list_items) - 1) :
            Commit(OnListViewHighlighted(Self, row), "highlighted")
    /\ UNCHANGED <<pairing, annotation, parsing>>

SwitchFilter ==
    /\ Running
    /\ \E type \in MediaTypes : Commit(ActionFilter(Self, type), type)
    /\ UNCHANGED <<pairing, annotation, parsing>>

Refresh ==
    /\ Running
    /\ \E pw \in PwOutcomes : \E alsa \in AlsaOutcomes :
            Commit(ActionRefresh(Self, pw, alsa), "refresh")
    /\ UNCHANGED <<pairing, annotation, parsing>>

Next == Mount \/ KeyPress \/ Highlighted \/ SwitchFilter \/ Refresh

Spec == Init /\ [][Next]_vars

(***************************************************************************)
(* The pairing function on its own: any two list lengths, one call.        *)
(***************************************************************************)
PairInit ==
    /\ pairing \in [num_out : 0..MaxPorts, num_in : 0..MaxPorts,
                    pc : {"call"}, raised : {"none"}, connections : {<<>>}]
    /\ AnnotationIdle
    /\ ParsingIdle
    /\ AppIdle

ConnPairsCall ==
    /\ pairing.pc = "call"
    /\ LET res == conn_pairs(pairing.num_out, pairing.num_in)
       IN  pairing' = [pairing EXCEPT
                !.pc = IF res.raised = "none" THEN "return" ELSE "raise",
                !.raised = res.raised,
                !.connections = res.connections]
    /\ UNCHANGED <<annotation, parsing, appvars>>

PairNext == ConnPairsCall

SpecPairs == PairInit /\ [][PairNext]_vars

(***************************************************************************)
(* The annotator on its own: any map of up to MaxObjects of the records    *)
(* above and one more, in any order, annotated one record per step.        *)
(***************************************************************************)
\* a record that meets the audio device rule, the port rule and the
\* portgroup rule at once
AudioPort12 ==
    ("object.id" :> "12") @@ ("object.type" :> "PipeWire:Interface:Port") @@
    ("media.type" :> "Audio") @@ ("media.class" :> "Audio/Sink") @@
    ("device.id" :> "4") @@ ("node.id" :> "14") @@ ("port.id" :> "1")

RawRecords == {Device4, Node5, Port6, Port9, Link11, Node14, AudioPort12}

RECURSIVE Listings(_, _)
Listings(records, n) ==
    IF n = 0 THEN {<<>>}
    ELSE {<<>>} \cup
         UNION {{<<r>> \o rest : rest \in Listings(records \ {r}, n - 1)} : r \in records}

AnnotateInit ==
    /\ annotation \in [info : {InfoOf(recs) : recs \in Listings(RawRecords, MaxObjects)},
                       pos : {0}, raised : {"none"}]
    /\ PairIdle
    /\ ParsingIdle
    /\ AppIdle

\* one turn of the loop of annotate_pw_info
AnnotateStep ==
    /\ annotation.raised = "none"
    /\ annotation.pos < Len(annotation.info.order)
    /\ LET step == AnnotateObject(annotation.info,
                                  annotation.info.order[annotation.pos + 1])
       IN  annotation' = [info |-> step.info,
                          pos |-> IF step.raised = "none" THEN annotation.pos + 1
                                  ELSE annotation.pos,
                          raised |-> step.raised]
    /\ UNCHANGED <<pairing, parsing, appvars>>

AnnotateNext == AnnotateStep

SpecAnnotate == AnnotateInit /\ [][AnnotateNext]_vars

(***************************************************************************)
(* Python str methods and the regular expressions of src/main.py 16-18, on *)
(* strings read character by character.                                    *)
(***************************************************************************)
Whitespace == {" ", "\t", "\n", "\r"}

RECURSIVE lstrip(_)
lstrip(s) == IF Len(s) > 0 /\ Head(s) \in Whitespace THEN lstrip(Tail(s)) ELSE s

RECURSIVE rstrip(_)
rstrip(s) ==
    IF Len(s) > 0 /\ SubSeq(s, Len(s), Len(s)) \in Whitespace
    THEN rstrip(SubSeq(s, 1, Len(s) - 1)) ELSE s

\* s.strip()
strip(s) == rstrip(lstrip(s))

\* line.startswith(prefix)
StartsWith(s, prefix) ==
    Len(prefix) <= Len(s) /\ SubSeq(s, 1, Len(prefix)) = prefix

\* s.find(sep) + 1: the place of the first sep in s, 0 when there is none
Find(s, sep) ==
    LET hits == {i \in 1..(Len(s) - Len(sep) + 1) : SubSeq(s, i, i + Len(sep) - 1) = sep}
    IN  IF hits = {} THEN 0 ELSE CHOOSE i \in hits : \A j \in hits : i <= j

\* s.split(sep)
RECURSIVE split(_, _)
split(s, sep) ==
    IF Find(s, sep) = 0 THEN <<s>>
    ELSE <<SubSeq(s, 1, Find(s, sep) - 1)>>
         \o split(SubSeq(s, Find(s, sep) + Len(sep), Len(s)), sep)

\* s.split(sep, maxsplit=1)
split_maxsplit_1(s, sep) ==
    IF Find(s, sep) = 0 THEN <<s>>
    ELSE <<SubSeq(s, 1, Find(s, sep) - 1), SubSeq(s, Find(s, sep) + Len(sep), Len(s))>>

\* "\n".join(lines)
RECURSIVE join(_)
join(lines) ==
    IF Len(lines) = 0 THEN ""
    ELSE IF Len(lines) = 1 THEN lines[1]
    ELSE lines[1] \o "\n" \o join(Tail(lines))

\* x in list
InList(x, list) == \E i \in DOMAIN list : list[i] = x

\* how many characters at the head of s are digits
RECURSIVE DigitRun(_)
DigitRun(s) == IF Len(s) > 0 /\ Head(s) \in {"0", "1", "2", "3", "4", "5", "6", "7", "8", "9"} THEN 1 + DigitRun(Tail(s)) ELSE 0

NoMatch == [matched |-> FALSE, group1 |-> "", group2 |-> "", group3 |-> ""]

\* the quoted name after "client <digits>: '" of ALSA_CLIENT
ClientName(id, quoted) ==
    IF StartsWith(quoted, ": '") /\ Find(SubSeq(quoted, 4, Len(quoted)), "'") >= 2
    THEN [matched |-> TRUE, group1 |-> id,
          group2 |-> SubSeq(quoted, 4, 2 + Find(SubSeq(quoted, 4, Len(quoted)), "'")),
          group3 |-> ""]
    ELSE NoMatch

\* re.search(ALSA_CLIENT, s), ALSA_CLIENT = r"^client ([0-9]+): '([^']+)'"
search_ALSA_CLIENT(s) ==
    IF StartsWith(s, "client ") /\ DigitRun(SubSeq(s, 8, Len(s))) >= 1
    THEN ClientName(SubSeq(s, 8, 7 + DigitRun(SubSeq(s, 8, Len(s)))),
                    SubSeq(s, 8 + DigitRun(SubSeq(s, 8, Len(s))), Len(s)))
    ELSE NoMatch

ConnectionHeads ==
    {<<"Connected", "To:">>, <<"Connected", "From:">>,
     <<"Connecting", "To:">>, <<"Connecting", "From:">>}

\* the match of ALSA_CONNECTION that starts at place at, if there is one
ConnectionAt(s, at) ==
    LET heads == {h \in ConnectionHeads :
                    StartsWith(SubSeq(s, at, Len(s)), h[1] \o " " \o h[2] \o " ")}
    IN  IF heads = {} THEN NoMatch
        ELSE LET h == CHOOSE g \in heads : TRUE
             IN  [matched |-> TRUE, group1 |-> h[1], group2 |-> h[2],
                  group3 |-> SubSeq(s, at + Len(h[1]) + Len(h[2]) + 2, Len(s))]

\* re.search(ALSA_CONNECTION, s),
\* ALSA_CONNECTION = r"(Connected|Connecting) (To:|From:) (.*)$": the
\* leftmost match
search_ALSA_CONNECTION(s) ==
    LET places == {i \in 1..Len(s) : ConnectionAt(s, i).matched}
    IN  IF places = {} THEN NoMatch
        ELSE ConnectionAt(s, CHOOSE i \in places : \A j \in places : i <= j)

\* re.sub("'", '"', val)
RECURSIVE sub_quotes(_)
sub_quotes(val) ==
    IF Len(val) = 0 THEN ""
    ELSE (IF Head(val) = "'" THEN "\"" ELSE Head(val)) \o sub_quotes(Tail(val))

\* int(digits)
RECURSIVE IntOf(_, _)
IntOf(digits, acc) ==
    IF Len(digits) = 0 THEN acc
    ELSE IntOf(Tail(digits), 10 * acc + (CHOOSE d \in 0..9 : ToString(d) = Head(digits)))

\* json.loads(val): a JSON string literal without escapes decodes to the str
\* between its quotes, a JSON number without sign or fraction to an int; any
\* other text the model hands it is no JSON
json_loads(val) ==
    IF /\ Len(val) >= 2
       /\ Head(val) = "\""
       /\ SubSeq(val, Len(val), Len(val)) = "\""
       /\ \A i \in 2..(Len(val) - 1) : SubSeq(val, i, i) \notin {"\"", "\\"}
    THEN [raised |-> "none", isstr |-> TRUE, value |-> SubSeq(val, 2, Len(val) - 1)]
    ELSE IF Len(val) >= 1 /\ DigitRun(val) = Len(val) /\ (Len(val) = 1 \/ Head(val) # "0")
    THEN [raised |-> "none", isstr |-> FALSE, value |-> IntOf(val, 0)]
    ELSE [raised |-> "JSONDecodeError", isstr |-> FALSE, value |-> 0]

\* json.loads(val).strip(): an int has no strip()
json_loads_strip(val) ==
    IF json_loads(val).raised # "none"
    THEN [raised |-> json_loads(val).raised, value |-> ""]
    ELSE IF ~json_loads(val).isstr THEN [raised |-> "AttributeError", value |-> ""]
    ELSE [raised |-> "none", value |-> strip(json_loads(val).value)]

\* f"{current_id}": None formats as the text None
Format(current_id) == IF current_id = None THEN "None" ELSE current_id

(***************************************************************************)
(* get_alsa_portdir, src/main.py 33-65: the body of its loop for one line  *)
(* and the loop from a line on.  look is the record of the locals.         *)
(***************************************************************************)
PortdirStart ==
    [ports |-> <<>>, current_id |-> None, raised |-> "none", done |-> FALSE]

\* lines 62-64
PortdirPortLine(look, parts) ==
    IF Len(parts) # 2 THEN [look EXCEPT !.raised = "ValueError"]
    ELSE [look EXCEPT !.ports = Append(@, Format(look.current_id) \o ":" \o parts[1])]

\* lines 56-59
PortdirClientLine(look, match) ==
    IF match.matched THEN [look EXCEPT !.current_id = match.group1] ELSE look

PortdirLine(look, line) ==
    IF strip(line) = "" THEN [look EXCEPT !.done = TRUE]
    ELSE IF ~StartsWith(line, "\t") /\ ~StartsWith(line, "    ")
    THEN PortdirClientLine(look, search_ALSA_CLIENT(strip(line)))
    ELSE IF StartsWith(line, "    ")
    THEN PortdirPortLine(look, split_maxsplit_1(strip(line), " "))
    ELSE look

RECURSIVE PortdirFrom(_, _)
PortdirFrom(look, lines) ==
    IF look.raised # "none" \/ look.done \/ Len(lines) = 0 THEN look
    ELSE PortdirFrom(PortdirLine(look, Head(lines)), Tail(lines))

\* get_alsa_portdir on the text the Gateway returned for "aconnect <direction>"
get_alsa_portdir(text) == PortdirFrom(PortdirStart, split(text, "\n"))

(***************************************************************************)
(* get_alsa_info, src/main.py 68-190.  parse is the record of its locals:  *)
(* info, current_obj (a dict once current_id is set), current_id,          *)
(* current_port, the connections dicts made so far (a port record holds    *)
(* the place of its dict in cells, since the two records of one port line  *)
(* share one dict), and link_objs, the link_obj values the loop built.     *)
(***************************************************************************)
ParseRaise(exc, parse) == [parse EXCEPT !.raised = exc]

\* info[id] = rec
InfoPut(info, id, rec) ==
    [order |-> IF id \in DOMAIN info.obj THEN info.order ELSE Append(info.order, id),
     obj   |-> [k \in DOMAIN info.obj \cup {id} |-> IF k = id THEN rec ELSE info.obj[k]]]

\* lines 90-93
AlsaEndOfInput(parse) ==
    IF parse.current_id # None
    THEN [parse EXCEPT !.info = InfoPut(@, parse.current_id, parse.current_obj),
                       !.done = TRUE]
    ELSE [parse EXCEPT !.done = TRUE]

\* lines 100-101
AlsaFlush(parse) ==
    IF parse.current_id # None
    THEN [parse EXCEPT !.info = InfoPut(@, parse.current_id, parse.current_obj)]
    ELSE parse

\* lines 104-113
AlsaNewClient(parse, match) ==
    [parse EXCEPT
        !.current_obj =
            ("object.id" :> match.group1) @@ ("object.client_id" :> match.group1) @@
            ("object.pwtype" :> "device_alsa_midi") @@ ("device.name" :> match.group2) @@
            ("ports" :> EmptyDict),
        !.current_id = match.group1]

\* lines 97-113
AlsaClientLine(parse, match) ==
    IF match.matched THEN AlsaNewClient(AlsaFlush(parse), match) ELSE parse

\* the port record of lines 125-133 and 143-151
PortObj(current_id, key, direction, name, cell) ==
    ("object.pwtype" :> "port") @@
    ("object.id" :> (Format(current_id) \o ":" \o direction \o ":" \o key)) @@
    ("port.id" :> (direction \o ":" \o key)) @@
    ("node.id" :> current_id) @@
    ("port.direction" :> direction) @@
    ("port.name" :> name) @@
    ("connections" :> cell)

\* lines 134-139 and 152-157
AlsaStorePort(parse, key, port_obj) ==
    [parse EXCEPT
        !.current_obj =
            SetItem(SetDefaultAppend(@, "node.ports", port_obj["object.id"]),
                    "ports", SetItem(@["ports"], key, port_obj["object.id"])),
        !.info = InfoPut(@, port_obj["object.id"], port_obj),
        !.current_port = port_obj]

\* lines 123-139 and 141-157: one of the two if blocks of a port line
AlsaPortBlock(parse, listed, key, name, direction) ==
    IF parse.raised # "none" \/ ~listed THEN parse
    ELSE IF name.raised # "none" THEN ParseRaise(name.raised, parse)
    ELSE IF parse.current_id = None THEN ParseRaise("AttributeError", parse)
    ELSE AlsaStorePort(parse, key,
            PortObj(parse.current_id, key, direction, name.value, Len(parse.cells)))

\* lines 119-157 with the second block under an elif: a key in both listings
\* gets its input record only
AlsaPortBlocksElif(parse, obj_key, key, val) ==
    AlsaPortBlock(
        AlsaPortBlock([parse EXCEPT !.cells = Append(@, [to |-> <<>>, from |-> <<>>])],
                      InList(obj_key, parse.in_ports), key, json_loads_strip(val), "in"),
        InList(obj_key, parse.out_ports) /\ ~InList(obj_key, parse.in_ports),
        key, json_loads_strip(val), "out")

\* lines 119-157, once the line is split in two
AlsaPortBlocks(parse, obj_key, key, val) ==
    AlsaPortBlock(
        AlsaPortBlock([parse EXCEPT !.cells = Append(@, [to |-> <<>>, from |-> <<>>])],
                      InList(obj_key, parse.in_ports), key, json_loads_strip(val), "in"),
        InList(obj_key, parse.out_ports), key, json_loads_strip(val), "out")

\* lines 117-157
AlsaPortLine(parse, parts) ==
    IF Len(parts) # 2 THEN ParseRaise("ValueError", parse)
    ELSE AlsaPortBlocks(parse, Format(parse.current_id) \o ":" \o parts[1],
                        parts[1], sub_quotes(parts[2]))

\* the link_obj of lines 171-186
LinkObj(obj_id, direction, parts, current_port) ==
    IF direction = "From:"
    THEN ("object.id" :> obj_id) @@ ("object.pwtype" :> "link") @@
         ("link.output.node" :> parts[1]) @@ ("link.output.port" :> parts[2]) @@
         ("link.input.node" :> current_port["node.id"]) @@
         ("link.input.port" :> current_port["port.id"])
    ELSE ("object.id" :> obj_id) @@ ("object.pwtype" :> "link") @@
         ("link.input.node" :> parts[1]) @@ ("link.input.port" :> parts[2]) @@
         ("link.output.node" :> current_port["node.id"]) @@
         ("link.output.port" :> current_port["port.id"])

\* lines 171-189 for one peer; obj_id is the name the last port block bound
AlsaLink(parse, direction, parts) ==
    IF Len(parts) # 2 THEN ParseRaise("ValueError", parse)
    ELSE [parse EXCEPT
            !.link_objs = Append(@, LinkObj(parse.current_port["object.id"], direction,
                                            parts, parse.current_port)),
            !.current_obj = SetDefaultAppend(@, "port.links",
                                             parse.current_port["object.id"])]

\* the loop of lines 170-189
RECURSIVE AlsaLinks(_, _, _)
AlsaLinks(parse, direction, conninfo) ==
    IF parse.raised # "none" \/ Len(conninfo) = 0 THEN parse
    ELSE AlsaLinks(AlsaLink(parse, direction, split(Head(conninfo), ":")),
                   direction, Tail(conninfo))

\* lines 165-168
AlsaExtend(parse, direction, conninfo) ==
    IF direction = "From:"
    THEN [parse EXCEPT !.cells[parse.current_port["connections"]].from = @ \o conninfo]
    ELSE [parse EXCEPT !.cells[parse.current_port["connections"]].to = @ \o conninfo]

\* lines 163-189; current_port is {} until a port block has run
AlsaConnection(parse, direction, conninfo) ==
    IF "connections" \notin DOMAIN parse.current_port THEN ParseRaise("KeyError", parse)
    ELSE AlsaLinks(AlsaExtend(parse, direction, conninfo), direction, conninfo)

\* lines 161-189
AlsaConnectionLine(parse, match) ==
    IF match.matched
    THEN AlsaConnection(parse, match.group2, split(match.group3, ", "))
    ELSE parse

\* the body of the loop, lines 87-189
AlsaLine(parse, line) ==
    IF strip(line) = "" THEN AlsaEndOfInput(parse)
    ELSE IF ~StartsWith(line, "\t") /\ ~StartsWith(line, "    ")
    THEN AlsaClientLine(parse, search_ALSA_CLIENT(strip(line)))
    ELSE IF StartsWith(line, "    ")
    THEN AlsaPortLine(parse, split_maxsplit_1(strip(line), " "))
    ELSE AlsaConnectionLine(parse, search_ALSA_CONNECTION(strip(line)))

\* lines 69-70: the two direction listings, INPUT = "-o" first
AlsaListed(in_ports, out_ports, text_o, text_i, text_l) ==
    [function |-> "get_alsa_info", text_o |-> text_o, text_i |-> text_i,
     in_ports |-> in_ports.ports, out_ports |-> out_ports.ports,
     text |-> text_l, lines |-> split(text_l, "\n"), pos |-> 0,
     info |-> EmptyInfo, current_obj |-> EmptyDict, current_id |-> None,
     current_port |-> EmptyDict, cells |-> <<>>, link_objs |-> <<>>,
     raised |-> IF in_ports.raised # "none" THEN in_ports.raised ELSE out_ports.raised,
     done |-> FALSE]

\* lines 69-84: the locals when the loop starts, for the three texts the
\* Gateway returned
AlsaStart(text_o, text_i, text_l) ==
    AlsaListed(get_alsa_portdir(text_o), get_alsa_portdir(text_i), text_o, text_i, text_l)

\* the loop has ended, by its break, by the end of the lines or by a raise
AlsaEnded(parse) ==
    parse.raised # "none" \/ parse.done \/ parse.pos >= Len(parse.lines)

(***************************************************************************)
(* The texts the Gateway returns to the sequencer parser: listings of up    *)
(* to MaxLines lines.                                                      *)
(***************************************************************************)
\* the lines of an "aconnect -l" listing before its empty line: two
\* clients, a port, a port line without a name, connection lines with and
\* without a bracketed annotation
AlsaLines ==
    {"client 14: 'thru' [type=kernel]",
     "    0 'thru-0          '",
     "    1",
     "\tConnecting To: 20:0, 20:1",
     "\tConnected From: 20:0[real:0]",
     "client 20: 'app' [type=user,pid=7]"}

\* the "aconnect -o" and "aconnect -i" listings: empty, or client 14 with
\* its port 0
DirectionTexts ==
    {"", join(<<"client 14: 'thru' [type=kernel]", "    0 'thru-0          '", "">>)}

\* the lists of up to n of the lines
RECURSIVE Bodies(_, _)
Bodies(lines, n) ==
    IF n = 0 THEN {<<>>}
    ELSE {<<>>} \cup UNION {{<<l>> \o rest : rest \in Bodies(lines, n - 1)} : l \in lines}

\* the texts of up to n lines: the loops stop reading at the first empty
\* line, so a text is a body, or a body and the empty line
Texts(lines, n) ==
    Bodies(lines, n) \cup {Append(body, "") : body \in Bodies(lines, n - 1)}

\* one turn of the loop of get_alsa_info
AlsaStep ==
    /\ parsing.function = "get_alsa_info"
    /\ ~AlsaEnded(parsing)
    /\ parsing' = [AlsaLine(parsing, parsing.lines[parsing.pos + 1]) EXCEPT !.pos = @ + 1]
    /\ UNCHANGED <<pairing, annotation, appvars>>

(***************************************************************************)
(* The text parser of get_pw_info, src/main.py 231-263: the loop over the  *)
(* lines of "pw-cli ls", then annotate_pw_info on the dict it built.       *)
(***************************************************************************)
\* lines 237-241
PwStart(text) ==
    [function |-> "get_pw_info", text |-> text, lines |-> split(text, "\n"), pos |-> 0,
     info |-> EmptyInfo, current_obj |-> EmptyDict, current_id |-> None,
     raised |-> "none", done |-> FALSE, returned |-> FALSE]

\* lines 246-247 and 250-251 without their test of current_id
PwFlushAlways(parse) ==
    [parse EXCEPT !.info = InfoPut(@, parse.current_id, parse.current_obj)]

\* lines 246-247 and 250-251: if current_id: info[current_id] = current_obj
PwFlush(parse) ==
    IF parse.current_id # None /\ parse.current_id # ""
    THEN [parse EXCEPT !.info = InfoPut(@, parse.current_id, parse.current_obj)]
    ELSE parse

\* line 252: current_id = stripline.split(", ")[0].split(" ")[1]
PwHeaderId(parse, words) ==
    IF Len(words) < 2 THEN ParseRaise("IndexError", parse)
    ELSE [parse EXCEPT !.current_id = words[2]]

\* lines 253-257, once the text after the first ", " is split at its first
\* space
PwNewObject(parse, words) ==
    IF Len(words) < 2 THEN ParseRaise("IndexError", parse)
    ELSE [parse EXCEPT !.current_obj =
            ("object.id" :> parse.current_id) @@ ("object.type" :> words[2])]

\* line 253: stripline.split(", ", maxsplit=1)[1].split(" ", maxsplit=1)[1]
PwHeaderType(parse, parts) ==
    IF parse.raised # "none" THEN parse
    ELSE IF Len(parts) < 2 THEN ParseRaise("IndexError", parse)
    ELSE PwNewObject(parse, split_maxsplit_1(parts[2], " "))

\* lines 249-257
PwHeaderLine(parse, stripline) ==
    PwHeaderType(PwHeaderId(PwFlush(parse), split(split(stripline, ", ")[1], " ")),
                 split_maxsplit_1(stripline, ", "))

\* line 260
PwSetAttribute(parse, key, val) ==
    IF val.raised # "none" THEN ParseRaise(val.raised, parse)
    ELSE [parse EXCEPT !.current_obj = SetItem(@, key, val.value)]

\* lines 259-260
PwAttributeLine(parse, parts) ==
    IF Len(parts) # 2 THEN ParseRaise("ValueError", parse)
    ELSE PwSetAttribute(parse, parts[1], json_loads(parts[2]))

\* the body of the loop, lines 244-260
PwLine(parse, line) ==
    IF strip(line) = "" THEN [PwFlush(parse) EXCEPT !.done = TRUE]
    ELSE IF StartsWith(line, "\t") /\ ~StartsWith(line, "\t\t")
    THEN PwHeaderLine(parse, strip(line))
    ELSE PwAttributeLine(parse, split(strip(line), " = "))

\* the loop has ended, by its break, by the end of the lines or by a raise
PwEnded(parse) ==
    parse.raised # "none" \/ parse.done \/ parse.pos >= Len(parse.lines)

\* lines 262-263: the dict as annotate_pw_info left it is returned, or the
\* exception of annotate_pw_info leaves get_pw_info
PwAnnotated(parse, annotated) ==
    [parse EXCEPT !.info = annotated.info, !.raised = annotated.raised,
                  !.returned = annotated.raised = "none"]

\* the lines of a "pw-cli ls" listing before its empty line: the header
\* and an attribute of a device, the header and two attributes of a port,
\* and an attribute line without " = "
PwLines ==
    {"\tid 4, type PipeWire:Interface:Device/3",
     "\t\tmedia.class = \"Audio/Device\"",
     "\tid 6, type PipeWire:Interface:Port/3",
     "\t\tport.id = \"0\"",
     "\t\tnode.id = \"4\"",
     "\t\tgarbage"}

\* one turn of the loop of get_pw_info
PwStep ==
    /\ parsing.function = "get_pw_info"
    /\ ~PwEnded(parsing)
    /\ parsing' = [PwLine(parsing, parsing.lines[parsing.pos + 1]) EXCEPT !.pos = @ + 1]
    /\ UNCHANGED <<pairing, annotation, appvars>>

\* lines 262-263, after the loop
PwReturn ==
    /\ parsing.function = "get_pw_info"
    /\ PwEnded(parsing)
    /\ parsing.raised = "none"
    /\ ~parsing.returned
    /\ parsing' = PwAnnotated(parsing, annotate_pw_info(parsing.info))
    /\ UNCHANGED <<pairing, annotation, appvars>>

(***************************************************************************)
(* The parsers on their own: the Gateway's texts are of up to MaxLines     *)
(* lines; one run of get_alsa_info or of get_pw_info, a line per step.     *)
(***************************************************************************)
ParseInit ==
    /\ parsing \in
          {AlsaStart(text_o, text_i, join(text_l)) :
              text_o \in DirectionTexts, text_i \in DirectionTexts,
              text_l \in Texts(AlsaLines, MaxLines)}
          \cup {PwStart(join(text)) : text \in Texts(PwLines, MaxLines)}
    /\ PairIdle
    /\ AnnotationIdle
    /\ AppIdle

ParseNext == AlsaStep \/ PwStep \/ PwReturn

SpecParsers == ParseInit /\ [][ParseNext]_vars

(***************************************************************************)
(* The parsers on listings that go on after a port the direction listings  *)
(* do not hold, or after an empty line: the same turns, on texts of up to   *)
(* MaxLines lines.                                                         *)
(***************************************************************************)
\* lines of "aconnect -l": two clients, port 0 of the direction listings,
\* port 1 that neither direction listing holds, and a connection line
RecordAlsaLines ==
    {"client 14: 'thru' [type=kernel]",
     "    0 'thru-0          '",
     "    1 'thru-1          '",
     "\tConnecting To: 20:0, 20:1",
     "client 20: 'app' [type=user,pid=7]"}

\* lines of "pw-cli ls": the header and an attribute of a device, the
\* header of a port
RecordPwLines ==
    {"\tid 4, type PipeWire:Interface:Device/3",
     "\t\tmedia.class = \"Audio/Device\"",
     "\tid 6, type PipeWire:Interface:Port/3"}

\* the texts of up to n lines that go on for one line after an empty line
TextsBeyondEmptyLine(lines, n) ==
    {body \o <<"", l>> : body \in Bodies(lines, n - 2), l \in lines}

RecordsInit ==
    /\ parsing \in
          {AlsaStart(text_o, text_i, join(text_l)) :
              text_o \in DirectionTexts, text_i \in DirectionTexts,
              text_l \in Texts(RecordAlsaLines, MaxLines)
                            \cup TextsBeyondEmptyLine(RecordAlsaLines, MaxLines)}
          \cup {PwStart(join(text)) :
                    text \in Texts(RecordPwLines, MaxLines)
                                \cup TextsBeyondEmptyLine(RecordPwLines, MaxLines)}
    /\ PairIdle
    /\ AnnotationIdle
    /\ AppIdle

SpecRecords == RecordsInit /\ [][ParseNext]_vars

(***************************************************************************)
(* The row list of an expanded sound card: the application is mounted on   *)
(* a multimedia graph whose card (device 4, node 5) has two ports of any   *)
(* local id, direction and monitor flag, and "{" expands every device.     *)
(***************************************************************************)
\* a port of node 5 as "pw-cli ls" lists it
CardPort(id, port_id, direction, monitor) ==
    ("object.id" :> id) @@ ("object.type" :> "PipeWire:Interface:Port") @@
    ("node.id" :> "5") @@ ("port.id" :> port_id) @@ ("port.direction" :> direction) @@
    ("port.name" :> "FL") @@ ("port.monitor" :> monitor)

CardPorts(id) ==
    {CardPort(id, port_id, direction, monitor) :
        port_id \in {"0", "2", "10"}, direction \in {"in", "out"},
        monitor \in {"false", "true", True}}

\* the listings: the card and the application, in either order
CardListings ==
    UNION {{<<Device4, Node5, a, b, Port9, Node14>>, <<Node14, Port9, b, a, Node5, Device4>>} :
                a \in CardPorts("6"), b \in CardPorts("12")}

RenderInit ==
    /\ PairIdle
    /\ AnnotationIdle
    /\ ParsingIdle
    /\ media_type = "audio"
    /\ pw_info \in {get_pw_info(InfoOf(listing)).info : listing \in CardListings}
    /\ alsa_info = EmptyInfo
    /\ expanded_devices = {}
    /\ expanded_ports = {}
    /\ selected_ports = {}
    /\ list_items = <<>>
    /\ list_selection = 0
    /\ calls = << <<"pw-cli", "ls">>, <<"aconnect", "-o">>, <<"aconnect", "-i">>,
                  <<"aconnect", "-l">> >>
    /\ raised = "none"
    /\ event = "__init__"

\* on_key for "{"
ExpandAllKey ==
    /\ Running
    /\ Commit(OnKey(Self, "left_curly_bracket", <<>>, Done(pw_info), alsa_info),
              "left_curly_bracket")
    /\ UNCHANGED <<pairing, annotation, parsing>>

RenderNext == Mount \/ ExpandAllKey

SpecRender == RenderInit /\ [][RenderNext]_vars

(***************************************************************************)
(* The specification's statements about conn_pairs, checked under          *)
(* SpecPairs.                                                              *)
(***************************************************************************)
\* C1: when the output list or the input list is empty (or both are), the
\* call returns without an error and the list it returns is empty.
C1_EmptyListGivesNoPairs ==
    (pairing.pc # "call" /\ (pairing.num_out = 0 \/ pairing.num_in = 0)) =>
        (pairing.raised = "none" /\ pairing.connections = <<>>)

\* C2: for num_out >= 1 and num_in >= 1 the call returns exactly
\* max(num_out, num_in) pairs, every pair (o, i) has 0 <= o < num_out and
\* 0 <= i < num_in, and every index of either list is in some pair.
C2_PairsCoverBothLists ==
    (pairing.pc # "call" /\ pairing.num_out >= 1 /\ pairing.num_in >= 1) =>
        /\ pairing.pc = "return"
        /\ Len(pairing.connections) = Max(pairing.num_out, pairing.num_in)
        /\ \A k \in DOMAIN pairing.connections :
                /\ pairing.connections[k][1] \in 0..(pairing.num_out - 1)
                /\ pairing.connections[k][2] \in 0..(pairing.num_in - 1)
        /\ \A o \in 0..(pairing.num_out - 1) :
                \E k \in DOMAIN pairing.connections : pairing.connections[k][1] = o
        /\ \A i \in 0..(pairing.num_in - 1) :
                \E k \in DOMAIN pairing.connections : pairing.connections[k][2] = i

\* C2 happens: a call with two lists of different lengths, both of several
\* ports, has returned.
C2_Witness ==
    /\ pairing.pc = "return"
    /\ pairing.num_out = 30
    /\ pairing.num_in = MaxPorts
    /\ Len(pairing.connections) = MaxPorts

\* C3: with n = max(num_out, num_in), the k-th pair returned (k = 0..n-1) is
\* (floor(k * num_out / n), floor(k * num_in / n)).
C3_KthPairIsFloor ==
    pairing.pc = "return" =>
        LET n == Max(pairing.num_out, pairing.num_in)
        IN  /\ Len(pairing.connections) = n
            /\ \A k \in 0..(n - 1) :
                    pairing.connections[k + 1] =
                        <<(k * pairing.num_out) \div n, (k * pairing.num_in) \div n>>

(***************************************************************************)
(* The specification's statements about the key commands, checked under    *)
(* Spec.  A statement about one command reads the state before the step    *)
(* (unprimed) and after it (primed); event' names the handler that ran.    *)
(***************************************************************************)
\* the elements of a list
Range(seq) == {seq[i] : i \in DOMAIN seq}

\* the four Gateway queries that rebuild both graphs
RebuildQueries ==
    {<<"pw-cli", "ls">>, <<"aconnect", "-o">>, <<"aconnect", "-i">>, <<"aconnect", "-l">>}

\* C4: after connect-all, whatever the marked set and the media type, both
\* graphs have been rebuilt from the Gateway and the marked set is empty.
C4_ConnectAllRebuildsAndClears ==
    event = "c" =>
        /\ selected_ports = {}
        /\ RebuildQueries \subseteq Range(calls)

\* the record a marked id stands for
MarkedRecord(id) ==
    IF Has(pw_info, id) THEN pw_info.obj[id]
    ELSE IF Has(alsa_info, id) THEN alsa_info.obj[id]
    ELSE EmptyDict

\* the marked ports of one direction, met in the order visit and sorted by
\* display key
MarkedSorted(visit, direction) ==
    LET ports == [i \in DOMAIN visit |-> MarkedRecord(visit[i])]
    IN  SortedByDisplayKey(
            Filter(ports, {i \in DOMAIN ports : Get(ports[i], "port.direction") = direction}))

\* the connect calls among the Gateway commands issued
ConnectCalls(issued) ==
    Filter(issued, {i \in DOMAIN issued :
                        /\ issued[i][1] = "pw-link"
                        /\ Len(issued[i]) = 3
                        /\ issued[i][2] # "-d"})

\* C5: connect-all issues one connect call per pair of the pairing engine,
\* in pair order, the k-th call naming the ids of outputs[o] and inputs[i]
\* of the marked ports split by direction and sorted by display key; so as
\* many connect calls as pairs.
C5_OneConnectCallPerPair ==
    [][event' = "c" =>
        \E visit \in Orderings(selected_ports) :
            LET outputs == MarkedSorted(visit, "out")
                inputs  == MarkedSorted(visit, "in")
                pairs   == conn_pairs(Len(outputs), Len(inputs)).connections
                issued  == ConnectCalls(calls')
            IN  /\ Len(issued) = Len(pairs)
                /\ \A k \in DOMAIN pairs :
                        /\ pairs[k][1] < Len(outputs)
                        /\ pairs[k][2] < Len(inputs)
                        /\ issued[k] = <<"pw-link",
                                         Get(outputs[pairs[k][1] + 1], "object.id"),
                                         Get(inputs[pairs[k][2] + 1], "object.id")>>
    ]_vars

\* C6: collapse-all completes and leaves the expanded-device set empty, the
\* expanded-port set empty and the highlight on row 0.
C6_CollapseAllResets ==
    event = "right_curly_bracket" =>
        /\ raised = "none"
        /\ expanded_devices = {}
        /\ expanded_ports = {}
        /\ list_selection = 0

\* C6 happens: collapse-all has run and completed in a session in which a
\* device was expanded and the highlight moved to a port row to mark it.
C6_Witness ==
    /\ event = "right_curly_bracket"
    /\ raised = "none"
    /\ selected_ports # {}
    /\ Len(list_items) >= 2

\* the roles of a device record
DeviceRoles == {"device_audio", "device_jack_midi", "device_video", "device_alsa_midi"}

\* C7: toggle-mark on a port row adds the row's id to the marked set when it
\* is not in it and removes it when it is, and leaves the highlight on that
\* row, so that a second toggle restores the set; on any other row the
\* marked set is unchanged and no error occurs.
C7_ToggleMark ==
    [][(event' = "space" /\ list_selection \in 0..(Len(list_items) - 1)) =>
        LET sel == list_items[list_selection + 1][1]
            id  == Get(sel, "object.id")
        IN  IF Get(sel, "object.pwtype") = "port"
            THEN /\ id \notin selected_ports => selected_ports' = selected_ports \cup {id}
                 /\ id \in selected_ports => selected_ports' = selected_ports \ {id}
                 /\ raised' = "none"
                 /\ list_selection' = list_selection
                 /\ Get(list_items'[list_selection' + 1][1], "object.id") = id
                 /\ Get(list_items'[list_selection' + 1][1], "object.pwtype") = "port"
            ELSE /\ selected_ports' = selected_ports
                 /\ raised' = "none"
    ]_vars

\* C7 happens: the last command was a toggle on a port row and it removed
\* the only mark, which an earlier toggle had added.
C7_Witness ==
    /\ event = "space"
    /\ raised = "none"
    /\ selected_ports = {}
    /\ list_selection \in 0..(Len(list_items) - 1)
    /\ Get(list_items[list_selection + 1][1], "object.pwtype") = "port"

\* C8: expand-one and collapse-one change the expansion sets only on a
\* device or port row, and then by that row's id alone (added by expand-one,
\* removed by collapse-one, with no change when it is already there or
\* already gone); on a section label row or a link row both sets are
\* unchanged and no error occurs.
C8_ExpandCollapseOne ==
    [][(/\ event' \in {"left_square_bracket", "right_square_bracket"}
        /\ list_selection \in 0..(Len(list_items) - 1)) =>
        LET sel  == list_items[list_selection + 1][1]
            id   == Get(sel, "object.id")
            role == Get(sel, "object.pwtype")
            changed(set) == IF event' = "left_square_bracket"
                            THEN set \cup {id} ELSE set \ {id}
        IN  IF role \in DeviceRoles
            THEN /\ expanded_devices' = changed(expanded_devices)
                 /\ expanded_ports' = expanded_ports
            ELSE IF role = "port"
            THEN /\ expanded_ports' = changed(expanded_ports)
                 /\ expanded_devices' = expanded_devices
            ELSE /\ expanded_devices' = expanded_devices
                 /\ expanded_ports' = expanded_ports
                 /\ raised' = "none"
    ]_vars

\* the ids of the device records, and of the port records, of a graph
GraphDeviceIds(info) ==
    {id \in DOMAIN info.obj : Get(info.obj[id], "object.pwtype") \in DeviceRoles}

GraphPortIds(info) ==
    {id \in DOMAIN info.obj : Get(info.obj[id], "object.pwtype") = "port"}

\* the graph the active media type shows
ActiveGraph == IF media_type = "alsa_midi" THEN alsa_info ELSE pw_info

\* C9, as stated: expand-all adds to the expanded-device set exactly the
\* device ids of the active graph and to the expanded-port set exactly its
\* port ids; no id of the other graph alone is added.
C9_ExpandAllActiveGraphOnly ==
    [][event' = "left_curly_bracket" =>
        /\ expanded_devices' = expanded_devices \cup GraphDeviceIds(ActiveGraph)
        /\ expanded_ports' = expanded_ports \cup GraphPortIds(ActiveGraph)
    ]_vars

\* C9, amended: expand-all adds to the expanded-device set exactly the
\* device ids of both graphs, the multimedia graph and the sequencer graph,
\* and to the expanded-port set exactly the port ids of both graphs,
\* whichever media type is active.
C9_ExpandAllBothGraphs ==
    [][event' = "left_curly_bracket" =>
        /\ expanded_devices' =
                expanded_devices \cup GraphDeviceIds(pw_info) \cup GraphDeviceIds(alsa_info)
        /\ expanded_ports' =
                expanded_ports \cup GraphPortIds(pw_info) \cup GraphPortIds(alsa_info)
    ]_vars

\* C9 happens: expand-all has run with the multimedia graph active and a
\* port of the sequencer graph is in the expanded-port set.
C9_Witness ==
    /\ event = "left_curly_bracket"
    /\ media_type = "audio"
    /\ GraphPortIds(pw_info) # {}
    /\ \E id \in GraphPortIds(alsa_info) \ GraphPortIds(pw_info) : id \in expanded_ports

(***************************************************************************)
(* The specification's statement about the annotator, checked under        *)
(* SpecAnnotate.                                                           *)
(***************************************************************************)
\* how many times x is in a list
Count(seq, x) == Cardinality({i \in DOMAIN seq : seq[i] = x})

\* the loop of annotate_pw_info has run to its end
Annotated ==
    annotation.raised = "none" /\ annotation.pos = Len(annotation.info.order)

\* the link records of the map whose two endpoint ids are in the map
ResolvedLinks ==
    {id \in DOMAIN annotation.info.obj :
        /\ Get(annotation.info.obj[id], "object.pwtype") = "link"
        /\ Has(annotation.info, Get(annotation.info.obj[id], "link.output.port"))
        /\ Has(annotation.info, Get(annotation.info.obj[id], "link.input.port"))}

\* C10: after annotation, for every link whose output-port id and
\* input-port id are both in the map, the link's id is exactly once in the
\* output endpoint's port.links_in, exactly once in the input endpoint's
\* port.links_out, and in no other record's lists.
C10_LinkSymmetry ==
    Annotated =>
        \A link \in ResolvedLinks : \A id \in DOMAIN annotation.info.obj :
            LET rec == annotation.info.obj[id]
                lnk == annotation.info.obj[link]
            IN  /\ Count(GetList(rec, "port.links_in"), link) =
                        (IF id = lnk["link.output.port"] THEN 1 ELSE 0)
                /\ Count(GetList(rec, "port.links_out"), link) =
                        (IF id = lnk["link.input.port"] THEN 1 ELSE 0)

\* C10 happens: a map holding a link and both its endpoints has been
\* annotated to the end.
C10_Witness ==
    /\ Annotated
    /\ ResolvedLinks # {}

\* C11: annotate_pw_info never raises on a dangling reference (a port whose
\* node is absent, a portgroup whose device is absent, a link whose output
\* or input port is absent): the run goes on to the remaining records.
C11_DanglingReferenceTolerated ==
    annotation.raised = "none"

\* the record id holds an entry for link in the list key
HoldsEntry(id, key, link) ==
    /\ Has(annotation.info, id)
    /\ Count(GetList(annotation.info.obj[id], key), link) > 0

\* C12: in every state after a link record was processed, either its output
\* endpoint and its input endpoint both hold an entry for the link or
\* neither does.
C12_LinkRegistrationAllOrNothing ==
    \A link \in DOMAIN annotation.info.obj :
        LET lnk == annotation.info.obj[link]
        IN  Get(lnk, "object.pwtype") = "link" =>
                (HoldsEntry(Get(lnk, "link.output.port"), "port.links_in", link)
                    <=> HoldsEntry(Get(lnk, "link.input.port"), "port.links_out", link))

\* the role the first matching rule gives a raw record, in the order audio
\* device, modern-MIDI device, video device, port, portgroup, link
RoleByPriority(obj) ==
    IF Get(obj, "media.type") = "Audio" \/ Get(obj, "media.class") = "Audio/Device"
        THEN "device_audio"
    ELSE IF "media.class" \in DOMAIN obj
            /\ SubSeq(chars[obj["media.class"]], 1, 4) = <<77, 105, 100, 105>>
        THEN "device_jack_midi"
    ELSE IF Get(obj, "media.class") = "Video/Device" THEN "device_video"
    ELSE IF "port.id" \in DOMAIN obj THEN "port"
    ELSE IF Get(obj, "media.class") \in
                {"Audio/Source", "Audio/Sink", "Video/Source", "Video/Sink"}
        THEN "portgroup"
    ELSE IF "link.output.port" \in DOMAIN obj THEN "link"
    ELSE None

\* the ids registered in some record's list key
Registered(key) ==
    UNION {Range(GetList(annotation.info.obj[id], key)) : id \in DOMAIN annotation.info.obj}

\* C13: every record the loop has visited holds the role of the first rule
\* it matches, whatever the order of the visit, and is registered only in
\* the list of that role: node.ports holds ports only, node.portgroups
\* portgroups only, port.links_in and port.links_out links only.
C13_FirstMatchingRuleWins ==
    /\ \A i \in 1..annotation.pos :
            LET obj == annotation.info.obj[annotation.info.order[i]]
            IN  Get(obj, "object.pwtype") = RoleByPriority(obj)
    /\ \A id \in Registered("node.ports") :
            RoleByPriority(annotation.info.obj[id]) = "port"
    /\ \A id \in Registered("node.portgroups") :
            RoleByPriority(annotation.info.obj[id]) = "portgroup"
    /\ \A id \in Registered("port.links_in") \cup Registered("port.links_out") :
            RoleByPriority(annotation.info.obj[id]) = "link"

\* C13 happens: a record that is an audio device by its media.type and also
\* carries a port.id and a portgroup's media.class was visited, next to a
\* port that was registered with its node.
C13_Witness ==
    /\ Annotated
    /\ Has(annotation.info, "12")
    /\ "port.id" \in DOMAIN annotation.info.obj["12"]
    /\ Get(annotation.info.obj["12"], "object.pwtype") = "device_audio"
    /\ Registered("node.ports") # {}

(***************************************************************************)
(* The specification's statements about the parsers, checked on            *)
(* SpecParsers.                                                            *)
(***************************************************************************)
\* the line the next turn of the loop reads
NextLine == parsing.lines[parsing.pos + 1]

\* the next turn of the loop reads a port line and does not raise
PortLineTurn ==
    /\ parsing.function = "get_alsa_info"
    /\ ~AlsaEnded(parsing)
    /\ StartsWith(NextLine, "    ")
    /\ parsing'.raised = "none"

\* the directions of the listings that hold the key of the port line
ListedDirections(obj_key) ==
    (IF InList(obj_key, parsing.in_ports) THEN <<"in">> ELSE <<>>) \o
    (IF InList(obj_key, parsing.out_ports) THEN <<"out">> ELSE <<>>)

\* the ids the turn appended to the client's "node.ports"
AddedPorts ==
    SubSeq(GetList(parsing'.current_obj, "node.ports"),
           Len(GetList(parsing.current_obj, "node.ports")) + 1,
           Len(GetList(parsing'.current_obj, "node.ports")))

\* the turn made one Port record per listed direction, under the client,
\* with the qualified id client:direction:key
PortRecordsMade(key, directions) ==
    /\ Len(AddedPorts) = Len(directions)
    /\ DOMAIN parsing'.info.obj = DOMAIN parsing.info.obj \cup Range(AddedPorts)
    /\ \A i \in DOMAIN AddedPorts :
          /\ parsing'.info.obj[AddedPorts[i]]["object.pwtype"] = "port"
          /\ parsing'.info.obj[AddedPorts[i]]["object.id"] = AddedPorts[i]
          /\ split(AddedPorts[i], ":") = <<parsing.current_id, directions[i], key>>
          /\ parsing'.info.obj[AddedPorts[i]]["port.direction"] = directions[i]
          /\ parsing'.info.obj[AddedPorts[i]]["node.id"] = parsing.current_id

ConnectionLineTurn ==
    /\ parsing.function = "get_alsa_info"
    /\ ~AlsaEnded(parsing)
    /\ StartsWith(NextLine, "\t")
    /\ search_ALSA_CONNECTION(strip(NextLine)).matched

\* the peers the connection dicts of the parse hold
RecordedPeers(parse) ==
    UNION {Range(parse.cells[i].to) \cup Range(parse.cells[i].from) : i \in DOMAIN parse.cells}

\* C15: a connection line whose peers carry bracketed annotations, read
\* after a port line of a listed port, is parsed without error by the
\* get_alsa_info the application uses, and every peer it records has the
\* shape client:port, the annotation removed.
C15_BracketsStripped ==
    [][(/\ ConnectionLineTurn
        /\ Find(NextLine, "[") > 0
        /\ "connections" \in DOMAIN parsing.current_port)
       => /\ parsing'.raised = "none"
          /\ \A peer \in RecordedPeers(parsing') :
                Len(split(peer, ":")) = 2 /\ Find(peer, "[") = 0]_vars

\* the next line is one the sequencer parser has no pattern for: a port
\* line without a name, or a connection line before any port record
MalformedAlsaLine ==
    /\ parsing.function = "get_alsa_info"
    /\ ~AlsaEnded(parsing)
    /\ \/ /\ StartsWith(NextLine, "    ")
          /\ strip(NextLine) # ""
          /\ Len(split_maxsplit_1(strip(NextLine), " ")) # 2
       \/ /\ ConnectionLineTurn
          /\ parsing.current_port = EmptyDict

\* the next line is an attribute line of "pw-cli ls" without " = "
MalformedPwLine ==
    /\ parsing.function = "get_pw_info"
    /\ ~PwEnded(parsing)
    /\ strip(NextLine) # ""
    /\ ~(StartsWith(NextLine, "\t") /\ ~StartsWith(NextLine, "\t\t"))
    /\ Find(strip(NextLine), " = ") = 0

\* C16: both parsers skip a line that matches none of the expected patterns
\* (a port line with no space-separated name, a connection line before any
\* port line, an attribute line without " = "): the turn that reads it
\* raises nothing, changes nothing of what was parsed and goes on to the
\* next line.
C16_MalformedLineSkipped ==
    [][(MalformedAlsaLine \/ MalformedPwLine)
       => parsing' = [parsing EXCEPT !.pos = @ + 1]]_vars

\* C17: when the Gateway returns empty text, get_alsa_portdir returns no
\* port keys, get_alsa_info an empty graph and get_pw_info an empty map,
\* each without raising.
C17_EmptyTextEmptyResult ==
    /\ (parsing.function = "get_alsa_info" /\ parsing.text_o = "")
            => parsing.in_ports = <<>>
    /\ (parsing.function = "get_alsa_info" /\ parsing.text_i = "")
            => parsing.out_ports = <<>>
    /\ (parsing.function = "get_alsa_info" /\ parsing.text_o = "" /\ parsing.text_i = "")
            => (parsing.pos = 0 => parsing.raised = "none")
    /\ (parsing.function \in {"get_alsa_info", "get_pw_info"} /\ parsing.text = "")
            => /\ parsing.raised = "none"
               /\ parsing.info = EmptyInfo
               /\ parsing.pos <= 1

\* get_pw_info has returned for the empty text
C17_Witness ==
    /\ parsing.function = "get_pw_info"
    /\ parsing.text = ""
    /\ parsing.returned
    /\ parsing.info = EmptyInfo

\* the entries of the "port.links" lists of the parse: those of the clients
\* stored in info and those of the client being read
LinkListEntries(parse) ==
    Range(GetList(parse.current_obj, "port.links")) \cup
    UNION {Range(GetList(parse.info.obj[id], "port.links")) : id \in DOMAIN parse.info.obj}

\* C19: within one parse of the sequencer dump no object id is used for two
\* records: a synthesized link record carries an id that no device or port
\* record and no other link record carries, and every entry of a device's
\* link-id list is the id of a link record, not of a port or device.
C19_ObjectIdsUnique ==
    parsing.function = "get_alsa_info" =>
        /\ \A i \in DOMAIN parsing.link_objs :
              /\ parsing.link_objs[i]["object.id"] \notin DOMAIN parsing.info.obj
              /\ \A j \in DOMAIN parsing.link_objs :
                    i # j => parsing.link_objs[i]["object.id"] # parsing.link_objs[j]["object.id"]
        /\ \A entry \in LinkListEntries(parsing) :
              /\ entry \notin DOMAIN parsing.info.obj
              /\ \E i \in DOMAIN parsing.link_objs :
                    parsing.link_objs[i]["object.id"] = entry

(***************************************************************************)
(* The specification's statements about the ids the application holds      *)
(* across a rebuild of the graphs, checked on Spec.                        *)
(***************************************************************************)
\* the handler that has just run rebuilt both graphs
GraphsRebuilt ==
    /\ event \in {"refresh", "c", "d"}
    /\ RebuildQueries \subseteq Range(calls)

\* C18: after a rebuild of the graphs (refresh, connect-all, disconnect) no
\* id held from the graph before it, in the marked-port set or in the
\* expanded-device and expanded-port sets, names a record of the rebuilt
\* graphs, so that no later connect or render resolves it there.
C18_NoIdSurvivesRebuild ==
    GraphsRebuilt =>
        (selected_ports \cup expanded_devices \cup expanded_ports)
            \cap (DOMAIN pw_info.obj \cup DOMAIN alsa_info.obj) = {}

(***************************************************************************)
(* The specification's statements about the order of the rows, checked on  *)
(* SpecRender.                                                             *)
(***************************************************************************)
\* what row i of list_items is: the header of a device, the label of a
\* section, or a port
RowKind(i) ==
    IF list_items[i][1] = EmptyDict THEN "label"
    ELSE IF Get(list_items[i][1], "object.pwtype") = "port" THEN "port"
    ELSE "device"

\* the section a port belongs in
SectionOf(port) ==
    IF port["port.direction"] = "in" THEN "input"
    ELSE IF Get(port, "port.monitor") = "true" THEN "monitor"
    ELSE "output"

SectionRank(label) ==
    CASE label = "input" -> 1 [] label = "output" -> 2 [] label = "monitor" -> 3

\* rows i..j belong to one device: no header after row i up to row j
SameDevice(i, j) == \A k \in (i + 1)..j : RowKind(k) # "device"

\* the label row that opens the section of port row i
LabelBefore(i) ==
    CHOOSE k \in 1..i :
        RowKind(k) = "label" /\ \A m \in (k + 1)..i : RowKind(m) = "port"

\* C20: the device header rows are in ascending numeric order of device id;
\* under an expanded device the sections come in the order inputs, outputs,
\* monitor outputs, each non-empty and opened by exactly one label row; and
\* within a section the port rows are in ascending order of local port id
\* (local id 2 before local id 10).
C20_RowOrder ==
    (event = "left_curly_bracket" /\ raised = "none") =>
        /\ \A i, j \in DOMAIN list_items :
              (i < j /\ RowKind(i) = "device" /\ RowKind(j) = "device")
                => int(list_items[i][1]["object.id"]) < int(list_items[j][1]["object.id"])
        /\ \A i \in DOMAIN list_items :
              RowKind(i) = "label"
                => i + 1 \in DOMAIN list_items /\ RowKind(i + 1) = "port"
        /\ \A i, j \in DOMAIN list_items :
              (i < j /\ RowKind(i) = "label" /\ RowKind(j) = "label" /\ SameDevice(i, j))
                => SectionRank(list_items[i][2][2]) < SectionRank(list_items[j][2][2])
        /\ \A i \in DOMAIN list_items :
              RowKind(i) = "port"
                => /\ i > 1 /\ RowKind(i - 1) \in {"label", "port"}
                   /\ list_items[LabelBefore(i)][2][2] = SectionOf(list_items[i][1])
        /\ \A i \in DOMAIN list_items :
              (i + 1 \in DOMAIN list_items /\ RowKind(i) = "port" /\ RowKind(i + 1) = "port")
                => int(list_items[i][1]["port.id"]) <= int(list_items[i + 1][1]["port.id"])

\* C20 without its last clause: the order of the headers and of the
\* sections, and the label of each section
C20_HeadersAndSections ==
    (event = "left_curly_bracket" /\ raised = "none") =>
        /\ \A i, j \in DOMAIN list_items :
              (i < j /\ RowKind(i) = "device" /\ RowKind(j) = "device")
                => int(list_items[i][1]["object.id"]) < int(list_items[j][1]["object.id"])
        /\ \A i \in DOMAIN list_items :
              RowKind(i) = "label"
                => i + 1 \in DOMAIN list_items /\ RowKind(i + 1) = "port"
        /\ \A i, j \in DOMAIN list_items :
              (i < j /\ RowKind(i) = "label" /\ RowKind(j) = "label" /\ SameDevice(i, j))
                => SectionRank(list_items[i][2][2]) < SectionRank(list_items[j][2][2])
        /\ \A i \in DOMAIN list_items :
              RowKind(i) = "port"
                => /\ i > 1 /\ RowKind(i - 1) \in {"label", "port"}
                   /\ list_items[LabelBefore(i)][2][2] = SectionOf(list_items[i][1])

\* the rows of list_items that stand for the port id
RowsOfPort(id) ==
    {i \in DOMAIN list_items :
        RowKind(i) = "port" /\ list_items[i][1]["object.id"] = id}

\* C21: under an expanded device every owned port appears in exactly one of
\* the three sections: a port of direction "in" in inputs, a port of
\* direction "out" whose monitor flag is the str "true" in monitor outputs,
\* every other port of direction "out" (no flag, another str, the bool
\* True) in outputs.
C21_OneSectionPerPort ==
    (event = "left_curly_bracket" /\ raised = "none") =>
        \A id \in DOMAIN pw_info.obj :
            Get(pw_info.obj[id], "object.pwtype") = "port" =>
                /\ Cardinality(RowsOfPort(id)) = 1
                /\ \A i \in RowsOfPort(id) :
                      list_items[LabelBefore(i)][2][2] =
                        (IF pw_info.obj[id]["port.direction"] = "in" THEN "input"
                         ELSE IF Get(pw_info.obj[id], "port.monitor") = "true" THEN "monitor"
                         ELSE "output")

\* the expanded card shows a monitor port, and output ports whose flag is
\* another str, the bool True, or absent
C21_Witness ==
    /\ event = "left_curly_bracket"
    /\ raised = "none"
    /\ Has(pw_info, "6") /\ Has(pw_info, "12")
    /\ pw_info.obj["6"]["port.direction"] = "out" /\ pw_info.obj["6"]["port.monitor"] = "true"
    /\ pw_info.obj["12"]["port.direction"] = "out" /\ pw_info.obj["12"]["port.monitor"] = True
    /\ "port.monitor" \notin DOMAIN pw_info.obj["9"]
    /\ \A id \in {"6", "9", "12"} : RowsOfPort(id) # {}

(***************************************************************************)
(* The specification's statements about disconnect and about the           *)
(* highlight, checked on Spec.                                             *)
(***************************************************************************)
\* the record of the highlighted row
HighlightedRecord == list_items[list_selection + 1][1]

\* C22: "d" on a link row issues exactly one disconnect call, with the id
\* of that link, and then the queries that rebuild both graphs; "d" on any
\* other row issues no call and leaves the graphs, the marked set and the
\* expansion sets as they were.
C22_DisconnectHighlightedLink ==
    [][(event' = "d" /\ list_selection \in 0..(Len(list_items) - 1)) =>
            IF Get(HighlightedRecord, "object.pwtype") = "link"
            THEN calls' = << <<"pw-link", "-d", HighlightedRecord["object.id"]>>,
                            <<"pw-cli", "ls">>, <<"aconnect", "-o">>,
                            <<"aconnect", "-i">>, <<"aconnect", "-l">> >>
            ELSE /\ calls' = <<>>
                 /\ UNCHANGED <<pw_info, alsa_info, selected_ports,
                                expanded_devices, expanded_ports>>]_vars

\* "d" has been pressed on the row of link 11
C22_Witness ==
    /\ event = "d"
    /\ Len(calls) = 5
    /\ calls[1] = <<"pw-link", "-d", "11">>

\* C23: after any sequence of commands, whenever the row list is not empty
\* the highlight index is at least 0 and less than the length of the row
\* list, so that the next key event reads a row that exists.
C23_HighlightInRange ==
    (event # "__init__" /\ Len(list_items) > 0) =>
        list_selection \in 0..(Len(list_items) - 1)

(***************************************************************************)
(* The specification's statements about the two graphs and the media       *)
(* type, checked on Spec.                                                  *)
(***************************************************************************)
\* the role of the devices of the active media type
ActiveRole ==
    CASE media_type = "audio" -> "device_audio"
      [] media_type = "jack_midi" -> "device_jack_midi"
      [] media_type = "video" -> "device_video"
      [] media_type = "alsa_midi" -> "device_alsa_midi"

\* C24: after every re-render the stored row list is exactly the rows of
\* the devices of the active media type, drawn from its own graph (the
\* sequencer graph for alsa_midi, the multimedia graph otherwise): it holds
\* no row of a media type that was active before, whether or not the other
\* graph is empty.
C24_RowsOfActiveMediaType ==
    (event # "__init__"
        /\ render_device_list(Self, DevicesOf(ActiveGraph, ActiveRole), ActiveGraph).raised
                = "none")
    => list_items =
            render_device_list(Self, DevicesOf(ActiveGraph, ActiveRole), ActiveGraph).items

(***************************************************************************)
(* The specification's statements about the records the parsers keep,      *)
(* checked on SpecRecords.                                                 *)
(***************************************************************************)
\* line k of the listing is a client line
IsClientLine(k) ==
    /\ ~StartsWith(parsing.lines[k], "\t")
    /\ ~StartsWith(parsing.lines[k], "    ")
    /\ search_ALSA_CLIENT(strip(parsing.lines[k])).matched

\* the port lines of the client being read, before the line the next turn
\* reads
PortLinesOfClient ==
    {j \in 1..parsing.pos :
        /\ StartsWith(parsing.lines[j], "    ")
        /\ \A k \in (j + 1)..parsing.pos : ~IsClientLine(k)}

\* the ids of the Port records made from the nearest preceding port line of
\* the client being read
NearestPortRecords ==
    IF PortLinesOfClient = {} THEN {}
    ELSE LET j == CHOOSE m \in PortLinesOfClient : \A n \in PortLinesOfClient : n <= m
             key == split_maxsplit_1(strip(parsing.lines[j]), " ")[1]
         IN  {Format(parsing.current_id) \o ":" \o direction \o ":" \o key :
                direction \in Range(ListedDirections(Format(parsing.current_id) \o ":" \o key))}

\* C25: a connection line of get_alsa_info records its peers only on the
\* Port records made from the nearest preceding port line of the same
\* client: the "to" and "from" lists of every other port, an earlier port
\* of the client or a port of another client, stay as they were.
C25_ConnectionOnNearestPort ==
    [][(ConnectionLineTurn /\ parsing'.raised = "none") =>
          \A id \in DOMAIN parsing.info.obj :
              "connections" \in DOMAIN parsing.info.obj[id] =>
                  \/ id \in NearestPortRecords
                  \/ parsing'.cells[parsing.info.obj[id]["connections"]] =
                     parsing.cells[parsing.info.obj[id]["connections"]]]_vars

\* the ids of the client header lines of the listing get_alsa_info read
ClientHeaderIds ==
    {search_ALSA_CLIENT(strip(parsing.lines[k])).group1 :
        k \in {j \in 1..Len(parsing.lines) :
                  /\ ~StartsWith(parsing.lines[j], "\t")
                  /\ ~StartsWith(parsing.lines[j], "    ")
                  /\ search_ALSA_CLIENT(strip(parsing.lines[j])).matched}}

\* the ids of the object header lines of the dump get_pw_info read
ObjectHeaderIds ==
    {split(split(strip(parsing.lines[k]), ", ")[1], " ")[2] :
        k \in {j \in 1..Len(parsing.lines) :
                  /\ StartsWith(parsing.lines[j], "\t")
                  /\ ~StartsWith(parsing.lines[j], "\t\t")}}

\* C26: every object header line of the multimedia dump and every client
\* header line of the sequencer dump has a record in the graph the parser
\* returns, the last header of a text without an empty last line and the
\* headers after an empty line included.
C26_EveryHeaderHasRecord ==
    /\ (parsing.function = "get_alsa_info" /\ AlsaEnded(parsing) /\ parsing.raised = "none")
            => ClientHeaderIds \subseteq DOMAIN parsing.info.obj
    /\ (parsing.function = "get_pw_info" /\ parsing.returned)
            => ObjectHeaderIds \subseteq DOMAIN parsing.info.obj

(***************************************************************************)
(* The specification's statement about the expansion state and the two     *)
(* source graphs, checked on Spec.                                         *)
(***************************************************************************)
\* the media types whose rows are drawn from the graph that is not active
OtherGraphTypes ==
    IF media_type = "alsa_midi" THEN MediaTypes \ {"alsa_midi"} ELSE {"alsa_midi"}

\* C27: the expansion state does not leak between the two source graphs:
\* expand-one on a device or port of the active graph changes nothing of
\* the rows a filter switch to a media type of the other graph renders, so
\* no device or port of the other graph that carries the same id is
\* rendered as expanded after the switch.
C27_ExpansionPerGraph ==
    [][(event' = "left_square_bracket" /\ raised' = "none") =>
          \A type \in OtherGraphTypes :
              ActionFilter(Self, type).raised = "none" =>
                  ActionFilter(Self', type).self.list_items =
                      ActionFilter(Self, type).self.list_items]_vars

====
